---- MODULE Spec2Model ----
(***************************************************************************)
(* git_cli_tool: branch-fallback resolution, autostash, branch history and *)
(* revert, modelled as a state machine over the state of the managed git   *)
(* repositories and of the history file.                                   *)
(*                                                                         *)
(* A git subprocess is an environment step: it may fail, and a failure     *)
(* leaves the repository as it was.  Every failure the environment injects *)
(* is counted in `faults` and bounded by MaxFaults.                        *)
(***************************************************************************)
EXTENDS Naturals, Integers, Sequences, FiniteSets, TLC

\* ------------------------------------------------------------------ bounds
MaxCand == 2
MaxFaults == 2
MaxHist == 2

\* ------------------------------------------------------------ the universe
Repos == {"r1", "r2"}

\* Two invocations of the tool started at the same time.
Invocations == {"a", "b"}
Branches == {"feat", "dev", "main"}
\* What `git rev-parse --abbrev-ref HEAD` prints on a detached HEAD.
Detached == "HEAD"
\* The priority list, highest first; a run uses a prefix of it.
Priority == <<"feat", "dev", "main">>
NoBranch == ""

Min(a, b) == IF a < b THEN a ELSE b

\* ------------------------------------------------------------- variables
VARIABLES
    config,     \* the configuration file: repositories, record_history
    git,        \* [Repos -> repository state]
    history,    \* the history file's YAML states, oldest first
    histFile,   \* "absent" | "ok" | "corrupt" (exists but cannot be parsed)
    clock,      \* source of timestamps
    pc,         \* the CLI process: "idle", or the running command's position
    args,       \* the running command's flags and arguments
    task,       \* [Repos -> per-repository task state of the running command]
    out,        \* what the running (or last) command reported
    faults,     \* environment failures injected so far
    pre,        \* the repositories as the last switch found and left them,
                \* and the state last handed to SaveStateToHistory
    runs,       \* the commands the user still runs, in order
    inv         \* [Invocations -> the history step of a concurrent invocation]

vars == <<config, git, history, histFile, clock, pc, args, task, out, faults, pre, runs,
          inv>>

\* ------------------------------------------------------------- strings
\* A string is a sequence of tokens; Contains is strings.Contains.
Labels == {<<"w">>, <<"w", "2">>}
EmptyStr == <<>>

IsPrefixAt(s, sub, i) ==
    /\ i + Len(sub) - 1 <= Len(s)
    /\ \A k \in 1..Len(sub) : s[i + k - 1] = sub[k]

Contains(s, sub) ==
    \E i \in 1..(Len(s) + 1) : IsPrefixAt(s, sub, i)

\* ------------------------------------------------- the git executable
\* Each operator is one git subprocess on repository state g; `fail` is the
\* environment's choice to make the subprocess exit with an error.

\* git rev-parse --abbrev-ref HEAD, behind the .git check.
GetCurrentBranch(g) ==
    IF g.valid THEN [ok |-> TRUE, val |-> g.cur] ELSE [ok |-> FALSE, val |-> NoBranch]

\* git show-ref --verify --quiet refs/heads/<b>: exit 1 is "absent", any
\* other failure is an error.
CheckBranchExists(g, b, fail) ==
    [exists |-> (~fail) /\ b \in g.local, err |-> fail]

\* git show-ref --verify --quiet refs/remotes/origin/<b>
CheckRemoteBranchExists(g, b, fail) ==
    [exists |-> (~fail) /\ b \in g.remote, err |-> fail]

\* git checkout <b>: a local branch, or (git's own fallback) a new local
\* branch tracking origin/<b>.
GitCheckout(g, b, fail) ==
    LET ok == (~fail) /\ (b \in g.local \/ b \in g.remote)
    IN  [ok |-> ok,
         g  |-> IF ok THEN [g EXCEPT !.cur = b, !.local = @ \cup {b}] ELSE g]

\* git checkout -b <b> --track origin/<b>
GitCheckoutTrack(g, b, fail) ==
    LET ok == (~fail) /\ b \notin g.local /\ b \in g.remote
    IN  [ok |-> ok,
         g  |-> IF ok THEN [g EXCEPT !.cur = b, !.local = @ \cup {b}] ELSE g]

\* git fetch: the remote-tracking refs take in the branches of origin.
GitFetch(g, fail) ==
    [ok |-> ~fail,
     g  |-> IF fail THEN g ELSE [g EXCEPT !.remote = @ \cup g.origin]]

\* The message StashChanges gives to `git stash push -m`.
StashMessage(stashName) == <<"GitSwitch:">> \o stashName

\* git stash push --include-untracked -m <message>: the newest stash is
\* stash@{0}, the working tree becomes clean.
GitStashPush(g, message, fail) ==
    [ok |-> ~fail,
     g  |-> IF fail THEN g
            ELSE [g EXCEPT !.stashes = <<[branch |-> g.cur, msg |-> message]>> \o @,
                           !.dirty = FALSE]]

\* One line of `git stash list`: stash@{i}: On <branch>: <message>
StashLine(g, i) ==
    <<"stash@", ToString(i - 1), ":", "On", g.stashes[i].branch, ":">> \o g.stashes[i].msg

\* git stash pop <ref>: the changes are back in the working tree and the
\* stash is dropped from the list.
GitStashPop(g, i, fail) ==
    [ok |-> ~fail,
     g  |-> IF fail THEN g
            ELSE [g EXCEPT !.dirty = TRUE,
                           !.stashes = SubSeq(@, 1, i - 1) \o SubSeq(@, i + 1, Len(@))]]

\* git stash apply <ref>: the changes are back in the working tree, the
\* stash stays in the list.
GitStashApply(g, i, fail) ==
    [ok |-> ~fail,
     g  |-> IF fail THEN g ELSE [g EXCEPT !.dirty = TRUE]]

Bit(b) == IF b THEN 1 ELSE 0

\* The environment's choices for the subprocesses of one candidate attempt.
Outcomes == [chk : BOOLEAN, co : BOOLEAN, fetch : BOOLEAN,
             rchk : BOOLEAN, track : BOOLEAN, plain : BOOLEAN]

\* The failures an outcome asks for; an attempt takes an outcome only when it
\* runs every subprocess the outcome fails.
NumFail(o) ==
    Bit(o.chk) + Bit(o.co) + Bit(o.fetch) + Bit(o.rchk) + Bit(o.track) + Bit(o.plain)

\* The outcomes that inject at most k failures.
OutcomesUpTo == [k \in 0..MaxFaults |-> {o \in Outcomes : NumFail(o) <= k}]

\* --------------------------------------------- SwitchBranchWithResult
\* One iteration of the candidate loop for branch b, `from` being
\* result.FromBranch.  kind: "already" | "local" | "remote" end the loop,
\* "absent" | "failed" continue with the next candidate.  nco counts the
\* git checkout subprocesses started, nf the failures consumed.
\* ResultTrack without the plain checkout behind a failed tracking checkout.
ResultTrackNoFallback(g, b, o) ==
    LET tr == GitCheckoutTrack(g, b, o.track)
    IN  IF tr.ok
        THEN [kind |-> "remote", g |-> tr.g, nco |-> 1, nf |-> 0, err |-> "none",
              remote |-> TRUE]
        ELSE [kind |-> "failed", g |-> g, nco |-> 1, nf |-> Bit(o.track),
              err |-> "remote_checkout", remote |-> TRUE]

ResultTrack(g, b, o) ==
    LET tr == GitCheckoutTrack(g, b, o.track)
        pl == GitCheckout(g, b, o.plain)
    IN  IF tr.ok
        THEN [kind |-> "remote", g |-> tr.g, nco |-> 1, nf |-> 0, err |-> "none",
              remote |-> TRUE]
        ELSE IF pl.ok
        THEN [kind |-> "remote", g |-> pl.g, nco |-> 2, nf |-> Bit(o.track),
              err |-> "none", remote |-> TRUE]
        ELSE [kind |-> "failed", g |-> g, nco |-> 2,
              nf |-> Bit(o.track) + Bit(o.plain), err |-> "remote_checkout",
              remote |-> TRUE]

ResultRemote(g, b, o) ==
    LET f  == GitFetch(g, o.fetch)
        rc == CheckRemoteBranchExists(f.g, b, o.rchk)
        nf0 == Bit(o.fetch)
    IN  IF rc.err
        THEN [kind |-> "failed", g |-> f.g, nco |-> 0, nf |-> nf0 + 1, err |-> "rcheck",
              remote |-> FALSE]
        ELSE IF ~rc.exists
        THEN [kind |-> "absent", g |-> f.g, nco |-> 0, nf |-> nf0, err |-> "none",
              remote |-> FALSE]
        ELSE LET t == ResultTrack(f.g, b, o)
             IN  [t EXCEPT !.nf = @ + nf0]

ResultAttempt(g, from, b, o) ==
    IF from = b
    THEN [kind |-> "already", g |-> g, nco |-> 0, nf |-> 0, err |-> "none",
          remote |-> FALSE]
    ELSE LET chk == CheckBranchExists(g, b, o.chk)
             co  == GitCheckout(g, b, o.co)
         IN  IF chk.err
             THEN [kind |-> "failed", g |-> g, nco |-> 0, nf |-> 1, err |-> "check",
                   remote |-> FALSE]
             ELSE IF chk.exists
             THEN IF co.ok
                  THEN [kind |-> "local", g |-> co.g, nco |-> 1, nf |-> 0, err |-> "none",
                        remote |-> FALSE]
                  ELSE [kind |-> "failed", g |-> g, nco |-> 1, nf |-> 1,
                        err |-> "checkout", remote |-> FALSE]
             ELSE ResultRemote(g, b, o)

\* ------------------------------------------- SwitchBranchWithFallback
\* One iteration of its candidate loop: no already-on-target test, and a
\* failed fetch ends the iteration.
FallbackRemote(g, b, o) ==
    LET f  == GitFetch(g, o.fetch)
        rc == CheckRemoteBranchExists(f.g, b, o.rchk)
    IN  IF ~f.ok
        THEN [kind |-> "failed", g |-> g, nco |-> 0, nf |-> 1, err |-> "fetch",
              remote |-> FALSE]
        ELSE IF rc.err
        THEN [kind |-> "failed", g |-> f.g, nco |-> 0, nf |-> 1, err |-> "rcheck",
              remote |-> FALSE]
        ELSE IF ~rc.exists
        THEN [kind |-> "absent", g |-> f.g, nco |-> 0, nf |-> 0, err |-> "none",
              remote |-> FALSE]
        ELSE ResultTrack(f.g, b, o)

FallbackAttempt(g, b, o) ==
    LET chk == CheckBranchExists(g, b, o.chk)
        co  == GitCheckout(g, b, o.co)
    IN  IF chk.err
        THEN [kind |-> "failed", g |-> g, nco |-> 0, nf |-> 1, err |-> "check",
              remote |-> FALSE]
        ELSE IF chk.exists
        THEN IF co.ok
             THEN [kind |-> "local", g |-> co.g, nco |-> 1, nf |-> 0, err |-> "none",
                   remote |-> FALSE]
             ELSE [kind |-> "failed", g |-> g, nco |-> 1, nf |-> 1, err |-> "checkout",
                   remote |-> FALSE]
        ELSE FallbackRemote(g, b, o)

\* ------------------------------------------------------- StashChanges
\* (created, error): git status --porcelain, then git stash push when the
\* working tree is dirty.  nstash counts the stash pushes started.
StashChanges(g, stashName, statusFail, pushFail) ==
    IF ~g.valid
    THEN [created |-> FALSE, err |-> TRUE, g |-> g, nstash |-> 0, nf |-> 0]
    ELSE IF statusFail
    THEN [created |-> FALSE, err |-> TRUE, g |-> g, nstash |-> 0, nf |-> 1]
    ELSE IF ~g.dirty
    THEN [created |-> FALSE, err |-> FALSE, g |-> g, nstash |-> 0, nf |-> 0]
    ELSE LET p == GitStashPush(g, StashMessage(stashName), pushFail)
         IN  [created |-> p.ok, err |-> ~p.ok, g |-> p.g, nstash |-> 1,
              nf |-> Bit(pushFail)]

\* ------------------------------------------------------ initial states
NoTask ==
    [st |-> "none", idx |-> 0, from |-> NoBranch, to |-> NoBranch,
     success |-> FALSE, fromRemote |-> FALSE, alreadyOnIt |-> FALSE,
     message |-> "", err |-> "none", stashed |-> FALSE, applied |-> 0,
     nco |-> 0, nstash |-> 0, tried |-> <<>>, published |-> FALSE, spoke |-> FALSE]

NoState == [ts |-> 0, description |-> EmptyStr, repos |-> [r \in {} |-> NoBranch]]

\* An invocation that has not reached its history step.
NoInvocation == [st |-> "start", states |-> <<>>, state |-> NoState, saved |-> FALSE]

NoArgs ==
    [cmd |-> "none", branches |-> <<>>, autostash |-> EmptyStr,
     storeHistory |-> TRUE, dryRun |-> FALSE, index |-> 0, applyStashes |-> TRUE,
     given |-> FALSE, state |-> NoState, parallel |-> FALSE,
     parent |-> NoBranch, fallback |-> NoBranch, read |-> "ok"]

NoOut ==
    [exit |-> "none", msg |-> "none", success |-> 0, fail |-> 0, stashedRepos |-> {},
     printed |-> <<>>, exited |-> FALSE, stashNameByRepo |-> <<>>,
     last |-> "none", split |-> FALSE]

\* ------------------------------------------------------------- package log
\* The error codes of the configuration and of the history commands.
ErrConfigReadFailed == "E101"
ErrNoConfigBranches == "E103"
ErrNoConfigRepos == "E104"
ErrHistoryReadFailed == "E401"
ErrHistoryIndexInvalid == "E404"

\* PrintError: the line with the error code on stderr, then os.Exit(1).  A
\* process that has exited prints nothing more.
PrintError(o, code, description) ==
    IF o.exited THEN o
    ELSE [o EXCEPT !.printed = Append(@, <<code, description>>),
                   !.exit = 1, !.exited = TRUE]

\* PrintInfo, PrintSuccess, PrintWarning: one line, the process goes on.
PrintLine(o, line) ==
    IF o.exited THEN o ELSE [o EXCEPT !.printed = Append(@, line)]

\* return from the command's Run function, or os.Exit(code).
Exit(o, code) ==
    IF o.exited THEN o ELSE [o EXCEPT !.exit = code, !.exited = TRUE]

\* A directory without .git.
\* ---------------------------------------------------------- history file
\* A RepositoryState written without its stash name.
MarshalRepositoryStateNoStash(rs) == [branch |-> rs.branch]

\* yaml.Marshal of a RepositoryState: `stash` is omitempty.
MarshalRepositoryState(rs) ==
    IF rs.stash = EmptyStr
    THEN [branch |-> rs.branch]
    ELSE [branch |-> rs.branch, stash |-> rs.stash]

\* yaml.Unmarshal into a RepositoryState: a missing key is the zero value.
UnmarshalRepositoryState(n) ==
    [branch |-> IF "branch" \in DOMAIN n THEN n.branch ELSE NoBranch,
     stash  |-> IF "stash" \in DOMAIN n THEN n.stash ELSE EmptyStr]

\* yaml.Marshal of a BranchState: `description` is omitempty.
MarshalBranchState(state) ==
    LET repositories == [r \in DOMAIN state.repos |-> MarshalRepositoryState(state.repos[r])]
    IN  IF state.description = EmptyStr
        THEN [timestamp |-> state.ts, repositories |-> repositories]
        ELSE [timestamp |-> state.ts, description |-> state.description,
              repositories |-> repositories]

\* yaml.Unmarshal into a BranchState.
UnmarshalBranchState(n) ==
    [ts |-> IF "timestamp" \in DOMAIN n THEN n.timestamp ELSE 0,
     description |-> IF "description" \in DOMAIN n THEN n.description ELSE EmptyStr,
     repos |-> IF "repositories" \in DOMAIN n
               THEN [r \in DOMAIN n.repositories |->
                        UnmarshalRepositoryState(n.repositories[r])]
               ELSE [r \in {} |-> NoBranch]]

\* SaveBranchHistory: the states marshalled to YAML, the whole file written.
SaveBranchHistory(states) == [i \in 1..Len(states) |-> MarshalBranchState(states[i])]

\* The history file unmarshalled.
Unmarshal(data) == [i \in 1..Len(data) |-> UnmarshalBranchState(data[i])]

NotARepo ==
    [valid |-> FALSE, cur |-> NoBranch, local |-> {}, remote |-> {}, origin |-> {},
     dirty |-> FALSE, stashes |-> <<>>, merging |-> FALSE]

\* A repository nobody has touched: on main, clean, nothing remote.
PlainRepo ==
    [valid |-> TRUE, cur |-> "main", local |-> {"main"}, remote |-> {}, origin |-> {},
     dirty |-> FALSE, stashes |-> <<>>, merging |-> FALSE]

\* Every shape of one repository: any set of local branches with HEAD on one
\* of them or detached, any remote-tracking refs, origin holding nothing new
\* or every branch.
WideRepos ==
    {[valid |-> TRUE, cur |-> c, local |-> l, remote |-> rm, origin |-> og,
      dirty |-> d, stashes |-> <<>>, merging |-> FALSE] :
        c \in Branches \cup {Detached}, l \in SUBSET Branches,
        rm \in SUBSET Branches, og \in SUBSET Branches, d \in BOOLEAN}

IsWideRepo(g) ==
    /\ g.local # {}
    /\ g.cur \in g.local \cup {Detached}
    /\ g.origin \in {g.remote, Branches}

\* A clean repository on main that also has dev.
DevRepo ==
    [valid |-> TRUE, cur |-> "main", local |-> {"main", "dev"}, remote |-> {},
     origin |-> {}, dirty |-> FALSE, stashes |-> <<>>, merging |-> FALSE]

\* The shapes the first repository of a batch starts in: on main, clean or
\* dirty, with dev as a local branch or feat as a remote-tracking ref.
BatchRepos ==
    {[valid |-> TRUE, cur |-> "main", local |-> x[1], remote |-> x[2], origin |-> x[2],
      dirty |-> d, stashes |-> <<>>, merging |-> FALSE] :
        x \in {<<{"main", "dev"}, {}>>, <<{"main"}, {"feat"}>>}, d \in BOOLEAN}

\* The history file as earlier runs left it: state i was taken with every
\* repository on OldBranch(i).
OldBranch(i) == IF i % 2 = 1 THEN "dev" ELSE "main"

OldState(i, repositories) ==
    [ts |-> i, description |-> EmptyStr,
     repos |-> [r \in repositories |-> [branch |-> OldBranch(i), stash |-> EmptyStr]]]

OldHistory(n, repositories) == [i \in 1..n |-> OldState(i, repositories)]

InitCommon ==
    /\ inv = [p \in Invocations |-> NoInvocation]
    /\ pc = "idle"
    /\ args = NoArgs
    /\ task = [r \in Repos |-> NoTask]
    /\ out = NoOut
    /\ faults = 0
    /\ pre = [ran |-> FALSE, saved |-> FALSE, git |-> git, left |-> git, landed |-> {},
              state |-> NoState]

InitHistory ==
    \E n \in 0..MaxHist :
        /\ history = SaveBranchHistory(OldHistory(n, config.repositories))
        /\ clock = n
        /\ histFile \in (IF n = 0 THEN {"absent", "ok", "corrupt"} ELSE {"ok", "corrupt"})

\* One repository in any shape, one command.
InitWide ==
    /\ config \in [repositories : {{"r1"}}, recordHistory : {FALSE}]
    /\ \E g \in {w \in WideRepos : IsWideRepo(w)} :
           git = [r \in Repos |-> IF r = "r1" THEN g ELSE PlainRepo]
    /\ history = <<>>
    /\ histFile = "absent"
    /\ clock = 0
    /\ InitCommon
    /\ runs = <<"switch">>

\* A batch of two repositories, two commands.
Init ==
    /\ config \in [repositories : {Repos}, recordHistory : BOOLEAN]
    /\ \E g1 \in BatchRepos, g2 \in {DevRepo, NotARepo} :
           git = [r \in Repos |-> IF r = "r1" THEN g1 ELSE g2]
    /\ InitHistory
    /\ InitCommon
    /\ runs \in {<<"switch", "revert">>, <<"revert">>, <<"history", "revert">>, <<"push", "push">>}

\* A clean repository on main with dev and one stash made by --autostash w.
StashedRepo ==
    [DevRepo EXCEPT !.stashes = <<[branch |-> "main", msg |-> StashMessage(<<"w">>)]>>]

\* A batch of two repositories, clean or dirty; the switch command of
\* cmd.Initialize is run once.
InitInitialize ==
    /\ config \in [repositories : {Repos}, recordHistory : {FALSE}]
    /\ \E g1 \in BatchRepos, g2 \in {DevRepo, [DevRepo EXCEPT !.dirty = TRUE], NotARepo} :
           git = [r \in Repos |-> IF r = "r1" THEN g1 ELSE g2]
    /\ InitHistory
    /\ InitCommon
    /\ runs = <<"switch_v1">>

\* Two repositories and a history file; two invocations of switch are
\* started together.
InitWriters ==
    /\ config \in [repositories : {Repos}, recordHistory : BOOLEAN]
    /\ \E g1 \in BatchRepos, g2 \in {DevRepo, NotARepo} :
           git = [r \in Repos |-> IF r = "r1" THEN g1 ELSE g2]
    /\ InitHistory
    /\ InitCommon
    /\ runs = <<>>

\* A batch of two repositories, no history; one switch or one push.
InitLive ==
    /\ config \in [repositories : {Repos}, recordHistory : {FALSE}]
    /\ \E g1 \in BatchRepos, g2 \in {DevRepo, NotARepo} :
           git = [r \in Repos |-> IF r = "r1" THEN g1 ELSE g2]
    /\ history = <<>>
    /\ histFile = "absent"
    /\ clock = 0
    /\ InitCommon
    /\ runs \in {<<"switch">>, <<"push">>}

\* A batch of two repositories; sync is run once.
InitSync ==
    /\ config \in [repositories : {Repos}, recordHistory : {FALSE}]
    /\ \E g1 \in BatchRepos, g2 \in {DevRepo, NotARepo} :
           git = [r \in Repos |-> IF r = "r1" THEN g1 ELSE g2]
    /\ InitHistory
    /\ InitCommon
    /\ runs = <<"sync">>

\* A clean repository on main with dev and three stashes: the newest made
\* by hand, the two older ones by --autostash w, on dev and then on main.
ManyStashesRepo ==
    [DevRepo EXCEPT !.stashes = <<[branch |-> "main", msg |-> <<"WIP">>],
                                  [branch |-> "main", msg |-> StashMessage(<<"w">>)],
                                  [branch |-> "dev", msg |-> StashMessage(<<"w">>)]>>]

\* A batch of two repositories; a snapshot is saved, then a revert is run.
InitSnapshots ==
    /\ config \in [repositories : {Repos}, recordHistory : {TRUE}]
    /\ \E g1 \in {StashedRepo, DevRepo, ManyStashesRepo}, g2 \in {DevRepo, NotARepo} :
           git = [r \in Repos |-> IF r = "r1" THEN g1 ELSE g2]
    /\ InitHistory
    /\ InitCommon
    /\ runs = <<"save", "revert">>

\* ============================================================ batches
\* Lines about repository r are written to the console: r has the last
\* word; the lines of r are split when r has written before and another
\* repository has written since.
Say(o, spoke, r) ==
    [o EXCEPT !.last = r, !.split = @ \/ (spoke /\ o.last # r)]

\* A barrier that opens when the first task has finished.
\* The collector waiting for one result more than there are repositories.
WaitOneMore(repositories) ==
    Cardinality({r \in repositories : task[r].st = "done"}) = Cardinality(repositories) + 1

WaitFirst(repositories) == \E r \in repositories : task[r].st = "done"

\* wg.Wait(), and the collector's loop of len(repositories) receives: every
\* task has finished (and its result was received).
Wait(repositories) == \A r \in repositories : task[r].st = "done"

\* A collector that counts the successful results only.
CountSuccessOnly(o, success) ==
    IF success THEN [o EXCEPT !.success = @ + 1] ELSE o

\* The collector's step for one result: successCount++ or failCount++.
Count(o, success) ==
    IF success THEN [o EXCEPT !.success = @ + 1] ELSE [o EXCEPT !.fail = @ + 1]

\* ============================================================== switch
\* --description, which the runs of switch do not give.
historyDescription == EmptyStr

\* collectCurrentState recording the branch asked for, not the current one.
collectTargetState(ts, repositories) ==
    [ts |-> ts, description |-> historyDescription,
     repos |-> [r \in {q \in repositories : GetCurrentBranch(git[q]).ok} |->
                   [branch |-> args.branches[1], stash |-> EmptyStr]]]

\* collectCurrentState: one entry per repository whose current branch can
\* be read; the stash name is always empty.
collectCurrentState(ts, repositories) ==
    [ts |-> ts, description |-> historyDescription,
     repos |-> [r \in {q \in repositories : GetCurrentBranch(git[q]).ok} |->
                   [branch |-> GetCurrentBranch(git[r]).val, stash |-> EmptyStr]]]

\* LoadBranchHistory taking a file it cannot parse for an empty history.
LoadBranchHistoryCorruptIsEmpty ==
    IF histFile \in {"absent", "corrupt"} THEN [ok |-> TRUE, states |-> <<>>]
    ELSE [ok |-> TRUE, states |-> Unmarshal(history)]

\* LoadBranchHistory failing on a missing file as on an unreadable one.
LoadBranchHistoryMissingIsError ==
    IF histFile = "ok" THEN [ok |-> TRUE, states |-> Unmarshal(history)]
    ELSE [ok |-> FALSE, states |-> <<>>]

\* LoadBranchHistory: a missing file is an empty history, not an error.
LoadBranchHistory ==
    IF histFile = "absent" THEN [ok |-> TRUE, states |-> <<>>]
    ELSE IF histFile = "corrupt" THEN [ok |-> FALSE, states |-> <<>>]
    ELSE [ok |-> TRUE, states |-> Unmarshal(history)]

\* SaveStateToHistory putting the new state in front.
SaveStateToHistoryPrepend(state, states) == SaveBranchHistory(<<state>> \o states)

\* SaveStateToHistory: append, then write the whole file.
SaveStateToHistory(state, states) == SaveBranchHistory(Append(states, state))

\* Whether runSwitchCmd records the state before switching.
RecordsHistory == config.recordHistory

\* The flags a switch is run with: --autostash <name> and --store-history
\* (true unless given as false, which is tried without autostash).
SwitchFlags == {<<EmptyStr, TRUE>>, <<EmptyStr, FALSE>>, <<<<"w">>, TRUE>>}

\* The index of a revert that is given none.
DefaultIndex == 0

\* The arguments a revert is run with: whether [index] is given, its value,
\* and --apply-stashes (true unless given as false, which is tried without
\* an index).
RevertFlags ==
    {<<TRUE, i, TRUE>> : i \in (-1)..(MaxHist + 1)}
        \cup {<<FALSE, DefaultIndex, ap>> : ap \in BOOLEAN}

\* --dry-run going on to the history step and the switch.
AfterFlagsNoDryRun(dry) == "sw_history"

\* runSwitchCmd, "Handle dry-run mode": runDryRun and return, before the
\* history step.
AfterFlags(dry) == IF dry THEN "sw_dry" ELSE "sw_history"

\* What this invocation finds when it reads the configuration file: a
\* usable configuration, a file that cannot be read or parsed, one without
\* branches (and no branch arguments given), or one without repositories.
ConfigReads == {"ok", "unreadable", "no_branches", "no_repositories"}

\* The error the checks at the head of runSwitchCmd print, in their order.
ConfigErrorCode(read) ==
    IF read = "unreadable" THEN ErrConfigReadFailed
    ELSE IF read = "no_branches" THEN ErrNoConfigBranches
    ELSE ErrNoConfigRepos

\* The checks at the head of runSwitchCmd going on after their error.
AfterConfigNoExit(read, dry) == AfterFlags(dry)

\* runSwitchCmd, the checks at its head: PrintError ends the process.
AfterConfig(read, dry) == IF read # "ok" THEN "idle" ELSE AfterFlags(dry)

\* runSwitchCmd up to the history step: the configuration, flags and
\* arguments are read.  --dry-run and the configuration errors are tried
\* with the other flags at their defaults, which they never read.
StartSwitch ==
    /\ pc = "idle"
    /\ runs # <<>> /\ Head(runs) = "switch"
    /\ \E n \in 1..Min(MaxCand, Len(Priority)),
          f \in SwitchFlags, dry \in BOOLEAN, read \in ConfigReads :
        LET a == f[1]
            sh == f[2]
        IN
           /\ (dry \/ read # "ok") => f = <<EmptyStr, TRUE>>
           /\ read # "ok" => (~dry /\ n = 1)
           /\ args' = [NoArgs EXCEPT !.cmd = "switch",
                                     !.branches = IF read = "no_branches" THEN <<>>
                                                  ELSE SubSeq(Priority, 1, n),
                                     !.autostash = a,
                                     !.storeHistory = sh,
                                     !.dryRun = dry,
                                     !.read = read]
           /\ pc' = AfterConfig(read, dry)
           /\ pre' = [ran |-> ~dry /\ read = "ok", saved |-> FALSE, git |-> git,
                      left |-> git, landed |-> {}, state |-> NoState]
           /\ out' = IF read # "ok"
                     THEN PrintError(NoOut, ConfigErrorCode(read), "configuration")
                     ELSE NoOut
    /\ task' = [r \in Repos |-> NoTask]
    /\ runs' = Tail(runs)
    /\ UNCHANGED <<inv, config, git, history, histFile, clock, faults>>

\* runSwitchCmd, "If recording history is enabled, save the current state".
SwitchHistory ==
    /\ pc = "sw_history"
    /\ LET h == LoadBranchHistory
           save == RecordsHistory /\ h.ok
       IN  IF save
           THEN /\ history' = SaveStateToHistory(
                                  collectCurrentState(clock + 1, config.repositories),
                                  h.states)
                /\ histFile' = "ok"
                /\ clock' = clock + 1
                /\ pre' = [pre EXCEPT !.saved = TRUE,
                                       !.state = collectCurrentState(
                                                     clock + 1, config.repositories)]
           ELSE UNCHANGED <<history, histFile, clock, pre>>
    /\ pc' = "sw_launch"
    /\ UNCHANGED <<inv, config, git, args, task, out, faults, runs>>

\* FirstStep with the resolver started at once.
FirstStepNoStash(autostash) == IF autostash # EmptyStr THEN "fallback" ELSE "result"

\* The first step of a repository's goroutine: SwitchBranchWithFallbackAndStash
\* stashes first when a stash name is given; the plain path starts
\* SwitchBranchWithResult, which reads the current branch.
FirstStep(autostash) == IF autostash # EmptyStr THEN "stash" ELSE "result"

SwitchLaunch ==
    /\ pc = "sw_launch"
    /\ task' = [r \in Repos |->
                  IF r \in config.repositories
                  THEN [NoTask EXCEPT !.st = FirstStep(args.autostash)]
                  ELSE NoTask]
    /\ pc' = "sw_wait"
    /\ UNCHANGED <<inv, config, git, history, histFile, clock, args, out, faults, pre, runs>>

\* What a task remembers of one attempt: the candidate, how the attempt
\* ended, the checkouts it started, whether it found the remote-tracking ref.
Tried(b, a) ==
    [b |-> b, kind |-> a.kind, err |-> a.err, nco |-> a.nco, remote |-> a.remote]

\* --------------------------------------------------- the plain path
\* ResultAfter with a failed attempt ending the loop.
ResultAfterStopOnFailure(t, b, a, last) ==
    LET t1 == [t EXCEPT !.idx = @ + 1, !.nco = @ + a.nco,
                        !.tried = Append(@, Tried(b, a))]
    IN  IF a.kind = "already"
        THEN [t1 EXCEPT !.st = "sent", !.to = b, !.success = TRUE,
                        !.alreadyOnIt = TRUE, !.message = "already on target"]
        ELSE IF a.kind = "local"
        THEN [t1 EXCEPT !.st = "sent", !.to = b, !.success = TRUE,
                        !.message = "switched"]
        ELSE IF a.kind = "remote"
        THEN [t1 EXCEPT !.st = "sent", !.to = b, !.success = TRUE,
                        !.fromRemote = TRUE, !.message = "switched (from remote)"]
        ELSE IF last \/ a.kind = "failed"
        THEN [t1 EXCEPT !.st = "sent", !.message = "no matching branch found"]
        ELSE t1

\* ResultAfter naming the last candidate in the result of a total failure.
ResultAfterNamesLast(t, b, a, last) ==
    LET t1 == [t EXCEPT !.idx = @ + 1, !.nco = @ + a.nco,
                        !.tried = Append(@, Tried(b, a))]
    IN  IF a.kind = "already"
        THEN [t1 EXCEPT !.st = "sent", !.to = b, !.success = TRUE,
                        !.alreadyOnIt = TRUE, !.message = "already on target"]
        ELSE IF a.kind = "local"
        THEN [t1 EXCEPT !.st = "sent", !.to = b, !.success = TRUE,
                        !.message = "switched"]
        ELSE IF a.kind = "remote"
        THEN [t1 EXCEPT !.st = "sent", !.to = b, !.success = TRUE,
                        !.fromRemote = TRUE, !.message = "switched (from remote)"]
        ELSE IF last
        THEN [t1 EXCEPT !.st = "sent", !.to = b,
                        !.message = "no matching branch found"]
        ELSE t1

\* What an attempt of kind k leaves in the SwitchResult.
ResultAfter(t, b, a, last) ==
    LET t1 == [t EXCEPT !.idx = @ + 1, !.nco = @ + a.nco,
                        !.tried = Append(@, Tried(b, a))]
    IN  IF a.kind = "already"
        THEN [t1 EXCEPT !.st = "sent", !.to = b, !.success = TRUE,
                        !.alreadyOnIt = TRUE, !.message = "already on target"]
        ELSE IF a.kind = "local"
        THEN [t1 EXCEPT !.st = "sent", !.to = b, !.success = TRUE,
                        !.message = "switched"]
        ELSE IF a.kind = "remote"
        THEN [t1 EXCEPT !.st = "sent", !.to = b, !.success = TRUE,
                        !.fromRemote = TRUE, !.message = "switched (from remote)"]
        ELSE IF last
        THEN [t1 EXCEPT !.st = "sent", !.message = "no matching branch found"]
        ELSE t1

\* SwitchBranchWithResult up to its loop: the .git check and the current
\* branch.
ResultBegin(r) ==
    /\ pc = "sw_wait"
    /\ task[r].st = "result"
    /\ task' = [task EXCEPT ![r] =
                  IF ~git[r].valid
                  THEN [@ EXCEPT !.st = "sent", !.message = "not a git repository"]
                  ELSE [@ EXCEPT !.st = "result_loop",
                                 !.from = GetCurrentBranch(git[r]).val]]
    /\ UNCHANGED <<inv, config, git, history, histFile, clock, pc, args, out, faults, pre, runs>>

\* SwitchBranchWithResult: one candidate of the loop, and the return after
\* the last one.
ResultTry(r) ==
    /\ pc = "sw_wait"
    /\ task[r].st = "result_loop"
    /\ \E o \in OutcomesUpTo[MaxFaults - faults] :
           LET b == args.branches[task[r].idx + 1]
               a == ResultAttempt(git[r], task[r].from, b, o)
           IN  /\ a.nf = NumFail(o)
               /\ faults + a.nf <= MaxFaults
               /\ faults' = faults + a.nf
               /\ git' = [git EXCEPT ![r] = a.g]
               /\ task' = [task EXCEPT ![r] =
                             ResultAfter(@, b, a, task[r].idx + 1 = Len(args.branches))]
    /\ UNCHANGED <<inv, config, history, histFile, clock, pc, args, out, pre, runs>>

\* runSwitchCmd receives one result from the channel and counts it.
Collect(r) ==
    /\ pc = "sw_wait"
    /\ args.autostash = EmptyStr
    /\ task[r].st = "sent"
    /\ task' = [task EXCEPT ![r].st = "done", ![r].spoke = TRUE]
    /\ out' = Say(Count(out, task[r].success), task[r].spoke, r)
    /\ UNCHANGED <<inv, config, git, history, histFile, clock, pc, args, faults, pre, runs>>

\* The last line of the plain path.
SummaryLine(successCount, failCount) ==
    IF failCount = 0
    THEN <<"All", ToString(successCount), "repositories switched successfully!">>
    ELSE <<ToString(successCount), "succeeded,", ToString(failCount), "failed">>

\* All results are in: the summary line, and the command returns.
SwitchSummary ==
    /\ pc = "sw_wait"
    /\ args.autostash = EmptyStr
    /\ Wait(config.repositories)
    /\ pc' = "idle"
    /\ out' = Exit(PrintLine(out, SummaryLine(out.success, out.fail)), 0)
    /\ UNCHANGED <<inv, config, git, history, histFile, clock, args, task, faults, pre, runs>>

\* TaskStash going on to the candidates after a failed stash.
TaskStashGoesOn(r) ==
    /\ pc = "sw_wait"
    /\ task[r].st = "stash"
    /\ \E sf \in BOOLEAN, pf \in BOOLEAN :
           LET s == StashChanges(git[r], args.autostash, sf, pf)
           IN  /\ s.nf = Bit(sf) + Bit(pf)
               /\ faults + s.nf <= MaxFaults
               /\ faults' = faults + s.nf
               /\ git' = [git EXCEPT ![r] = s.g]
               /\ task' = [task EXCEPT ![r] =
                             IF s.err
                             THEN [@ EXCEPT !.st = "fallback", !.err = "stash",
                                            !.nstash = @ + s.nstash,
                                            !.message = "failed to stash changes",
                                            !.spoke = TRUE]
                             ELSE [@ EXCEPT !.st = "fallback", !.stashed = s.created,
                                            !.nstash = @ + s.nstash,
                                            !.spoke = TRUE]]
    /\ out' = Say(out, task[r].spoke, r)
    /\ UNCHANGED <<inv, config, history, histFile, clock, pc, args, pre, runs>>

\* ------------------------------------------------ the autostash path
\* SwitchBranchWithFallbackAndStash, first half: StashChanges; an error
\* returns before any branch is tried.
TaskStash(r) ==
    /\ pc = "sw_wait"
    /\ task[r].st = "stash"
    /\ \E sf \in BOOLEAN, pf \in BOOLEAN :
           LET s == StashChanges(git[r], args.autostash, sf, pf)
           IN  /\ s.nf = Bit(sf) + Bit(pf)
               /\ faults + s.nf <= MaxFaults
               /\ faults' = faults + s.nf
               /\ git' = [git EXCEPT ![r] = s.g]
               /\ task' = [task EXCEPT ![r] =
                             IF s.err
                             THEN [@ EXCEPT !.st = "done", !.err = "stash",
                                            !.nstash = @ + s.nstash,
                                            !.message = "failed to stash changes",
                                            !.spoke = TRUE]
                             ELSE [@ EXCEPT !.st = "fallback", !.stashed = s.created,
                                            !.nstash = @ + s.nstash,
                                            !.spoke = TRUE]]
    /\ out' = Say(out, task[r].spoke, r)
    /\ UNCHANGED <<inv, config, history, histFile, clock, pc, args, pre, runs>>

\* FallbackAfter with the loop going on after a successful checkout.
FallbackAfterNoStop(t, b, a, last) ==
    LET t1 == [t EXCEPT !.idx = @ + 1, !.nco = @ + a.nco,
                        !.tried = Append(@, Tried(b, a)),
                        !.err = IF a.kind = "failed" THEN a.err ELSE @]
        t2 == IF a.kind \in {"local", "remote"}
              THEN [t1 EXCEPT !.to = b, !.success = TRUE, !.err = "none",
                              !.message = "switched"]
              ELSE t1
    IN  IF last THEN [t2 EXCEPT !.st = "done"] ELSE t2

\* What an attempt leaves in the goroutine of SwitchBranchesWithStash: the
\* last error, and at the return the entry in stashedRepos.
FallbackAfter(t, b, a, last) ==
    LET t1 == [t EXCEPT !.idx = @ + 1, !.nco = @ + a.nco,
                        !.tried = Append(@, Tried(b, a)),
                        !.err = IF a.kind = "failed" THEN a.err ELSE @]
    IN  IF a.kind \in {"local", "remote"}
        THEN [t1 EXCEPT !.st = "done", !.to = b, !.success = TRUE, !.err = "none",
                        !.message = "switched"]
        ELSE IF last
        THEN [t1 EXCEPT !.st = "done",
                        !.message = IF t1.err # "none"
                                    THEN "failed to switch to any branch"
                                    ELSE "none of the specified branches exist"]
        ELSE t1

\* Whether the goroutine writes to the console in this attempt: "Branch ...
\* not found locally ..., fetching from remote", "Successfully switched to
\* branch ...", "... trying next branch", and after the last attempt the
\* error SwitchBranchesWithStash prints for a failed repository.
FallbackSpeaks(g, b, a, t) ==
    \/ a.err # "check" /\ (b \notin g.local \/ a.kind = "local")
    \/ t.st = "done" /\ ~t.success

\* SwitchBranchWithFallback: one candidate of the loop, and the return after
\* the last one; the goroutine then records the stash under the mutex.
FallbackTry(r) ==
    /\ pc = "sw_wait"
    /\ task[r].st = "fallback"
    /\ \E o \in OutcomesUpTo[MaxFaults - faults] :
           LET b == args.branches[task[r].idx + 1]
               a == FallbackAttempt(git[r], b, o)
               t == FallbackAfter(task[r], b, a, task[r].idx + 1 = Len(args.branches))
           IN  /\ a.nf = NumFail(o)
               /\ faults + a.nf <= MaxFaults
               /\ faults' = faults + a.nf
               /\ git' = [git EXCEPT ![r] = a.g]
               /\ task' = [task EXCEPT ![r] =
                             [t EXCEPT !.spoke = @ \/ FallbackSpeaks(git[r], b, a, t)]]
               /\ out' = LET said == IF FallbackSpeaks(git[r], b, a, t)
                                     THEN Say(out, task[r].spoke, r) ELSE out
                         IN  IF t.st = "done" /\ t.success /\ t.stashed
                             THEN [said EXCEPT !.stashedRepos = @ \cup {r}]
                             ELSE said
    /\ UNCHANGED <<inv, config, history, histFile, clock, pc, args, pre, runs>>

\* wg.Wait() returns: "Branch switch completed".
SwitchCompleted ==
    /\ pc = "sw_wait"
    /\ args.autostash # EmptyStr
    /\ Wait(config.repositories)
    /\ pc' = "idle"
    /\ out' = Exit(PrintLine(out, <<"Branch switch completed">>), 0)
    /\ UNCHANGED <<inv, config, git, history, histFile, clock, args, task, faults, pre, runs>>

\* ============================================================== revert
\* SwitchToBranch: the single-target switch; every failure is returned.
SwitchToBranchRemote(g, b, o) ==
    LET f  == GitFetch(g, o.fetch)
        rc == CheckRemoteBranchExists(f.g, b, o.rchk)
    IN  IF ~f.ok
        THEN [ok |-> FALSE, g |-> g, nco |-> 0, nf |-> 1, err |-> "fetch"]
        ELSE IF rc.err
        THEN [ok |-> FALSE, g |-> f.g, nco |-> 0, nf |-> 1, err |-> "rcheck"]
        ELSE IF ~rc.exists
        THEN [ok |-> FALSE, g |-> f.g, nco |-> 0, nf |-> 0, err |-> "not_found"]
        ELSE LET t == ResultTrack(f.g, b, o)
             IN  [ok |-> t.kind = "remote", g |-> t.g, nco |-> t.nco, nf |-> t.nf,
                  err |-> t.err]

SwitchToBranch(g, b, o) ==
    LET chk == CheckBranchExists(g, b, o.chk)
        co  == GitCheckout(g, b, o.co)
    IN  IF ~g.valid
        THEN [ok |-> FALSE, g |-> g, nco |-> 0, nf |-> 0, err |-> "not_git"]
        ELSE IF chk.err
        THEN [ok |-> FALSE, g |-> g, nco |-> 0, nf |-> 1, err |-> "check"]
        ELSE IF chk.exists
        THEN [ok |-> co.ok, g |-> co.g, nco |-> 1, nf |-> Bit(~co.ok),
              err |-> IF co.ok THEN "none" ELSE "checkout"]
        ELSE SwitchToBranchRemote(g, b, o)

\* ApplyStash: the first line of `git stash list` containing stashName is
\* applied (0: none matches).
FindStashLast(g, stashName) ==
    LET hits == {i \in 1..Len(g.stashes) : Contains(StashLine(g, i), stashName)}
    IN  IF hits = {} THEN 0 ELSE CHOOSE i \in hits : \A j \in hits : j <= i

FindStash(g, stashName) ==
    LET hits == {i \in 1..Len(g.stashes) : Contains(StashLine(g, i), stashName)}
    IN  IF hits = {} THEN 0 ELSE CHOOSE i \in hits : \A j \in hits : i <= j

ApplyStash(g, stashName, applyFail) ==
    LET i == FindStash(g, stashName)
        ap == GitStashApply(g, i, applyFail)
    IN  IF ~g.valid
        THEN [ok |-> FALSE, g |-> g, applied |-> 0, nf |-> 0, err |-> "not_git"]
        ELSE IF i = 0
        THEN [ok |-> FALSE, g |-> g, applied |-> 0, nf |-> 0, err |-> "no_stash"]
        ELSE [ok |-> ap.ok, g |-> ap.g, applied |-> IF ap.ok THEN i ELSE 0,
              nf |-> Bit(applyFail), err |-> IF ap.ok THEN "none" ELSE "apply"]

\* ActualIndex without the reversal: index 0 is the oldest state.
ActualIndexOldestFirst(len, index) == index

\* ActualIndex with an offset below the array taken as the oldest state.
ActualIndexClamped(len, index) ==
    IF len - 1 - index < 0 THEN 0 ELSE len - 1 - index

\* ActualIndex with the offset wrapped around the array.
ActualIndexWrapped(len, index) == (len - 1 - index) % len

\* The array index runRevertCmd computes from the user's index.
ActualIndex(len, index) == len - 1 - index

ValidIndex(len, actualIndex) == ~(actualIndex < 0 \/ actualIndex >= len)

\* The line runRevertCmd has after the error of an invalid index.
ValidRangeLine(len) == <<"Valid range: 0-", ToString(len - 1)>>

\* runRevertCmd up to the call of RevertToState.
StartRevert ==
    /\ pc = "idle"
    /\ runs # <<>> /\ Head(runs) = "revert"
    /\ runs' = Tail(runs)
    /\ \E f \in RevertFlags :
           LET index == f[2]
               ap == f[3]
               h == LoadBranchHistory
               len == Len(h.states)
               ai == ActualIndex(len, index)
               a0 == [NoArgs EXCEPT !.cmd = "revert", !.given = f[1],
                                    !.index = index, !.applyStashes = ap]
           IN  IF ~h.ok
               THEN /\ args' = a0
                    /\ out' = [Exit(PrintError(NoOut, ErrHistoryReadFailed,
                                                "Error loading branch history"), 1)
                                  EXCEPT !.msg = "history read failed"]
                    /\ task' = [r \in Repos |-> NoTask]
                    /\ pc' = "idle"
               ELSE IF len = 0
               THEN /\ args' = a0
                    /\ out' = [Exit(PrintLine(NoOut, <<"No branch history found.">>), 0)
                                  EXCEPT !.msg = "no history"]
                    /\ task' = [r \in Repos |-> NoTask]
                    /\ pc' = "idle"
               ELSE IF ~ValidIndex(len, ai)
               THEN /\ args' = a0
                    /\ out' = [Exit(PrintLine(PrintError(NoOut, ErrHistoryIndexInvalid,
                                                          "Invalid index"),
                                               ValidRangeLine(len)), 1)
                                  EXCEPT !.msg = "invalid index"]
                    /\ task' = [r \in Repos |-> NoTask]
                    /\ pc' = "idle"
               ELSE /\ args' = [a0 EXCEPT !.state = h.states[ai + 1]]
                    /\ out' = NoOut
                    /\ task' = [r \in Repos |->
                                  IF r \in DOMAIN h.states[ai + 1].repos
                                  THEN [NoTask EXCEPT !.st = "entry"]
                                  ELSE NoTask]
                    /\ pc' = "rv_run"
    /\ pre' = IF args.cmd = "switch"
              THEN [pre EXCEPT !.left = git,
                               !.landed = {r \in Repos : task[r].success}]
              ELSE pre
    /\ UNCHANGED <<inv, config, git, history, histFile, clock, faults>>

\* RevertToState applying the recorded stash whatever --apply-stashes says.
RevertEntryAlwaysApplies(t, g, entry, applyStashes, o, applyFail) ==
    LET sw == SwitchToBranch(g, entry.branch, o)
        ap == ApplyStash(sw.g, entry.stash, applyFail)
    IN  IF entry.branch = NoBranch
        THEN [t |-> [t EXCEPT !.st = "done", !.message = "skipped"], g |-> g, nf |-> 0]
        ELSE IF ~sw.ok
        THEN [t |-> [t EXCEPT !.st = "done", !.err = sw.err, !.nco = @ + sw.nco],
              g |-> sw.g, nf |-> sw.nf]
        ELSE IF entry.stash # EmptyStr
        THEN [t |-> [t EXCEPT !.st = "done", !.success = TRUE, !.to = entry.branch,
                              !.nco = @ + sw.nco, !.applied = ap.applied,
                              !.err = ap.err],
              g |-> ap.g, nf |-> sw.nf + ap.nf]
        ELSE [t |-> [t EXCEPT !.st = "done", !.success = TRUE, !.to = entry.branch,
                              !.nco = @ + sw.nco],
              g |-> sw.g, nf |-> sw.nf]

\* RevertToState without the test for an empty branch.
RevertEntryNoSkip(t, g, entry, applyStashes, o, applyFail) ==
    LET sw == SwitchToBranch(g, entry.branch, o)
        ap == ApplyStash(sw.g, entry.stash, applyFail)
    IN  IF ~sw.ok
        THEN [t |-> [t EXCEPT !.st = "done", !.err = sw.err, !.nco = @ + sw.nco],
              g |-> sw.g, nf |-> sw.nf]
        ELSE IF entry.stash # EmptyStr /\ applyStashes
        THEN [t |-> [t EXCEPT !.st = "done", !.success = TRUE, !.to = entry.branch,
                              !.nco = @ + sw.nco, !.applied = ap.applied,
                              !.err = ap.err],
              g |-> ap.g, nf |-> sw.nf + ap.nf]
        ELSE [t |-> [t EXCEPT !.st = "done", !.success = TRUE, !.to = entry.branch,
                              !.nco = @ + sw.nco],
              g |-> sw.g, nf |-> sw.nf]

\* RevertToState: one repository entry of the state (map order is any order).
RevertEntry(t, g, entry, applyStashes, o, applyFail) ==
    LET sw == SwitchToBranch(g, entry.branch, o)
        ap == ApplyStash(sw.g, entry.stash, applyFail)
    IN  IF entry.branch = NoBranch
        THEN [t |-> [t EXCEPT !.st = "done", !.message = "skipped"], g |-> g, nf |-> 0]
        ELSE IF ~sw.ok
        THEN [t |-> [t EXCEPT !.st = "done", !.err = sw.err, !.nco = @ + sw.nco],
              g |-> sw.g, nf |-> sw.nf]
        ELSE IF entry.stash # EmptyStr /\ applyStashes
        THEN [t |-> [t EXCEPT !.st = "done", !.success = TRUE, !.to = entry.branch,
                              !.nco = @ + sw.nco, !.applied = ap.applied,
                              !.err = ap.err],
              g |-> ap.g, nf |-> sw.nf + ap.nf]
        ELSE [t |-> [t EXCEPT !.st = "done", !.success = TRUE, !.to = entry.branch,
                              !.nco = @ + sw.nco],
              g |-> sw.g, nf |-> sw.nf]

RevertRepo(r) ==
    /\ pc = "rv_run"
    /\ task[r].st = "entry"
    /\ \E o \in OutcomesUpTo[MaxFaults - faults], af \in BOOLEAN :
           LET e == RevertEntry(task[r], git[r], args.state.repos[r],
                                args.applyStashes, o, af)
           IN  /\ e.nf = NumFail(o) + Bit(af)
               /\ faults + e.nf <= MaxFaults
               /\ faults' = faults + e.nf
               /\ git' = [git EXCEPT ![r] = e.g]
               /\ task' = [task EXCEPT ![r] = e.t]
    /\ UNCHANGED <<inv, config, history, histFile, clock, pc, args, out, pre, runs>>

\* runRevertCmd with RevertToState returning an error when a repository
\* failed.
RevertDoneReportsFailures ==
    /\ pc = "rv_run"
    /\ \A r \in Repos : task[r].st # "entry"
    /\ pc' = "idle"
    /\ out' = IF \E r \in Repos : task[r].err # "none"
              THEN [PrintError(out, "E001", "Error during revert")
                       EXCEPT !.msg = "revert failed"]
              ELSE [Exit(PrintLine(out, <<"Successfully reverted to state",
                                          ToString(args.index)>>), 0)
                       EXCEPT !.msg = "reverted"]
    /\ UNCHANGED <<inv, config, git, history, histFile, clock, args, task, faults, pre, runs>>

\* RevertToState returns nil: "Successfully reverted to state [index]".
RevertDone ==
    /\ pc = "rv_run"
    /\ \A r \in Repos : task[r].st # "entry"
    /\ pc' = "idle"
    /\ out' = [Exit(PrintLine(out, <<"Successfully reverted to state",
                                     ToString(args.index)>>), 0)
                  EXCEPT !.msg = "reverted"]
    /\ UNCHANGED <<inv, config, git, history, histFile, clock, args, task, faults, pre, runs>>

\* ================================================================ push
\* git push, or git push -u origin <branch>: origin takes in the branch; with
\* -u the branch gets its upstream, the remote-tracking ref.
GitPush(g, setUpstream, fail) ==
    [ok |-> ~fail,
     g  |-> IF fail THEN g
            ELSE IF setUpstream
            THEN [g EXCEPT !.origin = @ \cup {g.cur}, !.remote = @ \cup {g.cur}]
            ELSE [g EXCEPT !.origin = @ \cup {g.cur}]]

\* pushRepository: a branch without upstream (or whose upstream cannot be
\* read) is published, any other is pushed.
pushRepository(t, g, upstreamFail, pushFail) ==
    LET branch == GetCurrentBranch(g)
        noUpstream == upstreamFail \/ g.cur \notin g.remote
        push == GitPush(g, noUpstream, pushFail)
        t1 == [t EXCEPT !.st = "sent", !.from = branch.val]
    IN  IF ~g.valid
        THEN [t |-> [t EXCEPT !.st = "sent", !.message = "not a git repository"],
              g |-> g, nf |-> 0]
        ELSE IF ~push.ok
        THEN [t |-> [t1 EXCEPT !.message = "push failed", !.err = "push"],
              g |-> g, nf |-> Bit(upstreamFail /\ g.cur \in g.remote) + 1]
        ELSE [t |-> [t1 EXCEPT !.success = TRUE, !.published = noUpstream,
                               !.message = IF noUpstream THEN "published and pushed"
                                           ELSE "pushed"],
              g |-> push.g, nf |-> Bit(upstreamFail /\ g.cur \in g.remote)]

\* runPushCmd up to the launch of one goroutine per repository.
StartPush ==
    /\ pc = "idle"
    /\ runs # <<>> /\ Head(runs) = "push"
    /\ runs' = Tail(runs)
    /\ args' = [NoArgs EXCEPT !.cmd = "push"]
    /\ task' = [r \in Repos |->
                  IF r \in config.repositories
                  THEN [NoTask EXCEPT !.st = "push"]
                  ELSE NoTask]
    /\ out' = NoOut
    /\ pc' = "push_wait"
    /\ UNCHANGED <<inv, config, git, history, histFile, clock, faults, pre>>

\* One goroutine: pushRepository, and the result sent to the channel.
PushRepo(r) ==
    /\ pc = "push_wait"
    /\ task[r].st = "push"
    /\ \E upstreamFail \in BOOLEAN, pushFail \in BOOLEAN :
           LET p == pushRepository(task[r], git[r], upstreamFail, pushFail)
           IN  /\ p.nf = Bit(upstreamFail) + Bit(pushFail)
               /\ faults + p.nf <= MaxFaults
               /\ faults' = faults + p.nf
               /\ git' = [git EXCEPT ![r] = p.g]
               /\ task' = [task EXCEPT ![r] = p.t]
    /\ UNCHANGED <<inv, config, history, histFile, clock, pc, args, out, pre, runs>>

\* runPushCmd receives one result from the channel and counts it.
CollectPush(r) ==
    /\ pc = "push_wait"
    /\ task[r].st = "sent"
    /\ task' = [task EXCEPT ![r].st = "done", ![r].spoke = TRUE]
    /\ out' = Say(Count(out, task[r].success), task[r].spoke, r)
    /\ UNCHANGED <<inv, config, git, history, histFile, clock, pc, args, faults, pre, runs>>

\* The last line of a push.
PushSummaryLine(successCount, failCount) ==
    IF failCount = 0
    THEN <<"All", ToString(successCount), "repositories pushed successfully!">>
    ELSE <<ToString(successCount), "succeeded,", ToString(failCount), "failed">>

\* All results are in: the summary line, and the command returns.
PushSummary ==
    /\ pc = "push_wait"
    /\ Wait(config.repositories)
    /\ pc' = "idle"
    /\ out' = Exit(PrintLine(out, PushSummaryLine(out.success, out.fail)), 0)
    /\ UNCHANGED <<inv, config, git, history, histFile, clock, args, task, faults, pre, runs>>

\* ============================================================= history
\* The lines runHistoryCmd prints for the state at array index i (from 0):
\* "[historyIndex] timestamp - description" and the repository summary.
HistoryEntryLines(states, i) ==
    LET state == states[i + 1]
        historyIndex == Len(states) - 1 - i
        repoCount == Cardinality(DOMAIN state.repos)
        stashCount == Cardinality({r \in DOMAIN state.repos :
                                      state.repos[r].stash # EmptyStr})
    IN  << <<"[", ToString(historyIndex), "]", ToString(state.ts)>>
              \o (IF state.description # EmptyStr
                  THEN <<"-">> \o state.description ELSE <<>>),
           IF repoCount > 0
           THEN <<ToString(repoCount), "repositories">>
                   \o (IF stashCount > 0
                       THEN <<ToString(stashCount), "with stashes">>
                       ELSE <<"no stashes">>)
           ELSE <<"No repository information">> >>

\* The entries from newest to oldest: array index i down to 0.
RECURSIVE HistoryLines(_, _)
HistoryLines(states, i) ==
    IF i < 0 THEN <<>>
    ELSE HistoryEntryLines(states, i) \o HistoryLines(states, i - 1)

\* runHistoryCmd: the history is loaded and listed, nothing is written.
RunHistory ==
    /\ pc = "idle"
    /\ runs # <<>> /\ Head(runs) = "history"
    /\ runs' = Tail(runs)
    /\ args' = [NoArgs EXCEPT !.cmd = "history"]
    /\ task' = [r \in Repos |-> NoTask]
    /\ LET h == LoadBranchHistory
       IN  out' = IF ~h.ok
                  THEN [Exit(PrintError(NoOut, ErrHistoryReadFailed,
                                        "Error loading branch history"), 1)
                           EXCEPT !.msg = "history read failed"]
                  ELSE IF Len(h.states) = 0
                  THEN [Exit(PrintLine(NoOut, <<"No branch history found.">>), 0)
                           EXCEPT !.msg = "no history"]
                  ELSE [Exit([NoOut EXCEPT !.printed =
                                  << <<"Branch history:">> >>
                                      \o HistoryLines(h.states, Len(h.states) - 1)],
                             0)
                           EXCEPT !.msg = "listed"]
    /\ UNCHANGED <<inv, config, git, history, histFile, clock, pc, faults, pre>>

\* ======================================================= saved snapshots
\* The repository entries CreateBranchStateSnapshot can record: the branch
\* (empty when it could not be read) and the stash name given for the
\* repository, if any.
RepositoryStates == [branch : {NoBranch, "dev"}, stash : {EmptyStr, <<"w">>}]

\* The snapshots taken at time ts, with or without a description.
Snapshots(ts) ==
    {[ts |-> ts, description |-> d, repos |-> rp] :
        d \in {EmptyStr, <<"d">>},
        rp \in UNION {[D -> RepositoryStates] : D \in SUBSET Repos}}

\* A snapshot is added to the history: load, append, save.
SaveState ==
    /\ pc = "idle"
    /\ runs # <<>> /\ Head(runs) = "save"
    /\ runs' = Tail(runs)
    /\ args' = [NoArgs EXCEPT !.cmd = "save"]
    /\ LET h == LoadBranchHistory
       IN  IF h.ok
           THEN \E state \in Snapshots(clock + 1) :
                    /\ history' = SaveStateToHistory(state, h.states)
                    /\ histFile' = "ok"
                    /\ clock' = clock + 1
                    /\ pre' = [pre EXCEPT !.saved = TRUE, !.state = state]
           ELSE UNCHANGED <<history, histFile, clock, pre>>
    /\ UNCHANGED <<inv, config, git, pc, task, out, faults>>

\* ================================= the switch command of cmd.Initialize
\* CreateBranchStateSnapshot: an entry for every repository, with an empty
\* branch when the current branch cannot be read, and the stash name
\* stashNameByRepo holds for the repository, if any.
CreateBranchStateSnapshot(ts, repositories, description, stashNameByRepo) ==
    [ts |-> ts, description |-> description,
     repos |-> [r \in repositories |->
                  [branch |-> IF GetCurrentBranch(git[r]).ok
                              THEN GetCurrentBranch(git[r]).val ELSE NoBranch,
                   stash  |-> IF r \in DOMAIN stashNameByRepo
                              THEN stashNameByRepo[r] ELSE EmptyStr]]]

\* The flags of the command: --autostash, --store-history, --parallel.
InitializeFlags ==
    {<<a, sh, par>> : a \in {EmptyStr, <<"w">>}, sh \in BOOLEAN, par \in BOOLEAN}

\* stashNameByRepo[r] = name
PutStashName(m, r, name) ==
    [q \in DOMAIN m \cup {r} |-> IF q = r THEN name ELSE m[q]]

\* Whether the command records stash names before it switches: in parallel
\* runs only with --store-history, in sequential runs always.
Probes(a) == a.autostash # EmptyStr /\ (a.storeHistory \/ ~a.parallel)

\* The step a repository's work starts with once the names are recorded.
SwitchStep(autostash) == IF autostash # EmptyStr THEN "stash" ELSE "fallback"

\* The command up to the first goroutine: the configuration is read, the
\* state before the switch is saved with --store-history.
StartInitializeSwitch ==
    /\ pc = "idle"
    /\ runs # <<>> /\ Head(runs) = "switch_v1"
    /\ runs' = Tail(runs)
    /\ \E n \in 1..Min(MaxCand, Len(Priority)), f \in InitializeFlags :
           LET a == [NoArgs EXCEPT !.cmd = "switch_v1",
                                   !.branches = SubSeq(Priority, 1, n),
                                   !.autostash = f[1],
                                   !.storeHistory = f[2],
                                   !.parallel = f[3]]
               h == LoadBranchHistory
               state == CreateBranchStateSnapshot(
                            clock + 1, config.repositories,
                            <<"Switch to", a.branches[1]>>, <<>>)
           IN  /\ args' = a
               /\ IF a.storeHistory /\ h.ok
                  THEN /\ history' = SaveStateToHistory(state, h.states)
                       /\ histFile' = "ok"
                       /\ clock' = clock + 1
                       /\ pre' = [ran |-> TRUE, saved |-> TRUE, git |-> git, left |-> git,
                                  landed |-> {}, state |-> state]
                  ELSE /\ UNCHANGED <<history, histFile, clock>>
                       /\ pre' = [ran |-> TRUE, saved |-> FALSE, git |-> git, left |-> git,
                                  landed |-> {}, state |-> NoState]
               /\ task' = [r \in Repos |->
                             IF r \in config.repositories
                             THEN [NoTask EXCEPT !.st = IF Probes(a) THEN "status"
                                                        ELSE SwitchStep(a.autostash)]
                             ELSE NoTask]
    /\ out' = NoOut
    /\ pc' = "sw_wait"
    /\ UNCHANGED <<inv, config, git, faults>>

\* The repositories in the order of the configuration file.
RepoOrder == <<"r1", "r2">>

Before(q, r) ==
    \E i, j \in 1..Len(RepoOrder) : i < j /\ RepoOrder[i] = q /\ RepoOrder[j] = r

\* Sequential runs take the repositories in order: r works when every
\* repository before it has got as far as the states of `past`.
Turn(r, past) ==
    args.parallel \/ \A q \in config.repositories : Before(q, r) => task[q].st \in past

\* git status --porcelain: is there anything to stash?
ProbeStatus(r) ==
    /\ pc = "sw_wait"
    /\ task[r].st = "status"
    /\ Turn(r, {"probed"})
    /\ \E statusFail \in BOOLEAN :
           /\ statusFail => git[r].valid
           /\ faults + Bit(statusFail) <= MaxFaults
           /\ faults' = faults + Bit(statusFail)
           /\ task' = [task EXCEPT ![r].st =
                         IF git[r].valid /\ ~statusFail /\ git[r].dirty
                         THEN "write" ELSE "probed"]
    /\ UNCHANGED <<inv, config, git, history, histFile, clock, pc, args, out, pre, runs>>

\* stashNameByRepo[r.Path] = autostash begins: no lock is taken.
ProbeWriteBegin(r) ==
    /\ pc = "sw_wait"
    /\ task[r].st = "write"
    /\ task' = [task EXCEPT ![r].st = "writing"]
    /\ UNCHANGED <<inv, config, git, history, histFile, clock, pc, args, out, faults, pre, runs>>

\* The map assignment ends.  When another goroutine is inside its own
\* assignment the two writes race: the write lands, or it is lost, or the
\* runtime stops the process with "fatal error: concurrent map writes".
ProbeWriteEnd(r) ==
    /\ pc = "sw_wait"
    /\ task[r].st = "writing"
    /\ LET race == \E q \in Repos \ {r} : task[q].st = "writing"
           lands == [out EXCEPT !.stashNameByRepo = PutStashName(@, r, args.autostash)]
       IN  \/ /\ out' = lands
              /\ task' = [task EXCEPT ![r].st = "probed"]
              /\ pc' = pc
           \/ /\ race
              /\ out' = out
              /\ task' = [task EXCEPT ![r].st = "probed"]
              /\ pc' = pc
           \/ /\ race
              /\ out' = [Exit(PrintLine(out, <<"fatal error: concurrent map writes">>), 2)
                            EXCEPT !.msg = "fatal"]
              /\ task' = task
              /\ pc' = "idle"
    /\ UNCHANGED <<inv, config, git, history, histFile, clock, args, faults, pre, runs>>

\* wg.Wait() of the recording returns (sequential runs: the loop ends), and
\* SwitchBranches...WithStash starts the work on every repository.
ProbeWait ==
    /\ pc = "sw_wait"
    /\ \A r \in config.repositories : task[r].st = "probed"
    /\ task' = [r \in Repos |->
                  IF r \in config.repositories
                  THEN [task[r] EXCEPT !.st = SwitchStep(args.autostash)]
                  ELSE task[r]]
    /\ UNCHANGED <<inv, config, git, history, histFile, clock, pc, args, out, faults, pre, runs>>

\* The switch has returned; with --store-history and --autostash the state
\* after the switch is saved with the recorded stash names.
InitializeSwitchDone ==
    /\ pc = "sw_wait"
    /\ args.cmd = "switch_v1"
    /\ Wait(config.repositories)
    /\ LET h == LoadBranchHistory
           state == CreateBranchStateSnapshot(
                        clock + 1, config.repositories,
                        <<"After switch to", args.branches[1], "with stash">>
                            \o args.autostash,
                        out.stashNameByRepo)
       IN  IF args.storeHistory /\ args.autostash # EmptyStr /\ h.ok
           THEN /\ history' = SaveStateToHistory(state, h.states)
                /\ histFile' = "ok"
                /\ clock' = clock + 1
                /\ pre' = [pre EXCEPT !.state = state]
           ELSE UNCHANGED <<history, histFile, clock, pre>>
    /\ pc' = "idle"
    /\ out' = Exit(out, 0)
    /\ UNCHANGED <<inv, config, git, args, task, faults, runs>>

\* ===================================================== switch --dry-run
\* The smallest index of a non-empty set of indexes.
First(S) == CHOOSE i \in S : \A j \in S : i <= j

\* findTargetBranch: every candidate is looked up among the local branches
\* first; when none is there, one git fetch (its error ignored) and every
\* candidate is looked up among the remote-tracking refs.  A lookup that
\* fails counts as "not there".  cf, rf: the candidates whose local and
\* remote lookup the environment fails; ff: whether it fails the fetch.
\* nf counts the failures among the subprocesses that were run.
findTargetBranch(g, branches, cf, ff, rf) ==
    LET n     == Len(branches)
        lhits == {i \in 1..n :
                     LET c == CheckBranchExists(g, branches[i], i \in cf)
                     IN  ~c.err /\ c.exists}
        f     == GitFetch(g, ff)
        rhits == {i \in 1..n :
                     LET c == CheckRemoteBranchExists(f.g, branches[i], i \in rf)
                     IN  ~c.err /\ c.exists}
    IN  IF lhits # {}
        THEN [to |-> branches[First(lhits)], source |-> "local", g |-> g,
              nf |-> Cardinality(cf \cap 1..First(lhits))]
        ELSE IF rhits # {}
        THEN [to |-> branches[First(rhits)], source |-> "remote", g |-> f.g,
              nf |-> Cardinality(cf) + Bit(ff) + Cardinality(rf \cap 1..First(rhits))]
        ELSE [to |-> NoBranch, source |-> "none", g |-> f.g,
              nf |-> Cardinality(cf) + Bit(ff) + Cardinality(rf)]

\* runDryRun, one turn of its loop, the repositories taken in order: the
\* current branch (an error is reported and the repository skipped), then
\* the line with what findTargetBranch found.
DryRunRepo(r) ==
    /\ pc = "sw_dry"
    /\ r \in config.repositories
    /\ task[r].st = "none"
    /\ \A q \in config.repositories : Before(q, r) => task[q].st = "reported"
    /\ LET cur == GetCurrentBranch(git[r])
       IN  IF ~cur.ok
           THEN /\ task' = [task EXCEPT ![r] =
                              [NoTask EXCEPT !.st = "reported", !.err = "current",
                                             !.message = "ERROR", !.spoke = TRUE]]
                /\ UNCHANGED <<git, faults>>
           ELSE \E cf \in SUBSET (1..Len(args.branches)), ff \in BOOLEAN,
                   rf \in SUBSET (1..Len(args.branches)) :
                    LET x == findTargetBranch(git[r], args.branches, cf, ff, rf)
                    IN  /\ x.nf = Cardinality(cf) + Bit(ff) + Cardinality(rf)
                        /\ faults + x.nf <= MaxFaults
                        /\ faults' = faults + x.nf
                        /\ git' = [git EXCEPT ![r] = x.g]
                        /\ task' = [task EXCEPT ![r] =
                              [NoTask EXCEPT
                                  !.st = "reported", !.from = cur.val, !.to = x.to,
                                  !.fromRemote = (x.source = "remote"),
                                  !.alreadyOnIt = (x.to = cur.val),
                                  !.message = IF x.to = NoBranch THEN "NO MATCH"
                                              ELSE IF x.to = cur.val
                                              THEN "ALREADY ON TARGET"
                                              ELSE "target",
                                  !.spoke = TRUE]]
    /\ out' = Say(out, task[r].spoke, r)
    /\ UNCHANGED <<inv, config, history, histFile, clock, pc, args, pre, runs>>

\* runDryRun after the loop: "Dry-run complete. No changes were made."
DryRunComplete ==
    /\ pc = "sw_dry"
    /\ \A r \in config.repositories : task[r].st = "reported"
    /\ pc' = "idle"
    /\ out' = Exit(PrintLine(out, <<"Dry-run complete. No changes were made.">>), 0)
    /\ UNCHANGED <<inv, config, git, history, histFile, clock, args, task, faults, pre, runs>>

\* The environment failing no subprocess.
NoFailure ==
    [chk |-> FALSE, co |-> FALSE, fetch |-> FALSE, rchk |-> FALSE, track |-> FALSE,
     plain |-> FALSE]

\* SwitchBranchWithResult run to its return on repository state g with
\* every subprocess succeeding: the result it sends.
RECURSIVE SwitchBranchWithResultLoop(_, _, _)
SwitchBranchWithResultLoop(g, t, branches) ==
    IF t.st = "sent" THEN t
    ELSE LET b == branches[t.idx + 1]
             a == ResultAttempt(g, t.from, b, NoFailure)
         IN  SwitchBranchWithResultLoop(
                 a.g, ResultAfter(t, b, a, t.idx + 1 = Len(branches)), branches)

SwitchBranchWithResult(g, branches) ==
    IF ~g.valid
    THEN [NoTask EXCEPT !.st = "sent", !.message = "not a git repository"]
    ELSE SwitchBranchWithResultLoop(
             g, [NoTask EXCEPT !.st = "result_loop", !.from = GetCurrentBranch(g).val],
             branches)

\* ============================================ concurrent invocations
\* The history an invocation appends to, read again at the time of saving.
LocalHistoryReloaded(p) == LoadBranchHistory.states

\* The history an invocation appends to: the one its ReadHistory returned.
LocalHistory(p) == inv[p].states

\* runSwitchCmd of invocation p, `config.ReadHistory()`: with recording
\* off, or a history file that cannot be read, the history step is over.
ReadHistory(p) ==
    /\ inv[p].st = "start"
    /\ LET h == LoadBranchHistory
       IN  inv' = [inv EXCEPT ![p] =
                      IF RecordsHistory /\ h.ok
                      THEN [@ EXCEPT !.st = "loaded", !.states = h.states]
                      ELSE [@ EXCEPT !.st = "done"]]
    /\ UNCHANGED <<config, git, history, histFile, clock, pc, args, task, out, faults,
                   pre, runs>>

\* runSwitchCmd of invocation p, collectCurrentState and
\* SaveStateToHistory: the state is appended to the history that was read
\* and the whole file is written.
WriteHistory(p) ==
    /\ inv[p].st = "loaded"
    /\ LET state == collectCurrentState(clock + 1, config.repositories)
       IN  /\ history' = SaveStateToHistory(state, LocalHistory(p))
           /\ inv' = [inv EXCEPT ![p] = [@ EXCEPT !.st = "done", !.state = state,
                                                  !.saved = TRUE]]
    /\ histFile' = "ok"
    /\ clock' = clock + 1
    /\ UNCHANGED <<config, git, pc, args, task, out, faults, pre, runs>>

NextWriters ==
    \/ \E p \in Invocations : ReadHistory(p)
    \/ \E p \in Invocations : WriteHistory(p)

\* ================================================================ sync
defaultFallbackBranch == "main"

\* What `git merge <branch> --no-edit` can do, as the contents of the two
\* branches and the environment decide.
MergeOutcomes == {"merged", "uptodate", "conflict", "failed"}

\* git merge <branch> --no-edit.  A conflict stops the merge half way: the
\* repository is in the merging state (MERGE_HEAD is there) with conflict
\* markers in the working tree, and the output names the CONFLICT.
GitMerge(g, branch, outcome) ==
    [ok |-> outcome \in {"merged", "uptodate"},
     conflict |-> outcome = "conflict",
     uptodate |-> outcome = "uptodate",
     g  |-> IF outcome = "conflict"
            THEN [g EXCEPT !.merging = TRUE, !.dirty = TRUE]
            ELSE g]

\* Whether a branch is there, locally or as a remote-tracking ref; the
\* errors of the two lookups are dropped by syncRepository.
BranchKnown(g, b) ==
    CheckBranchExists(g, b, FALSE).exists \/ CheckRemoteBranchExists(g, b, FALSE).exists

\* syncRepository: fetch --all (errors ignored), switch to the target with
\* SwitchBranchWithFallback, choose the branch to merge (the parent, or the
\* fallback branch when there is no parent or it is nowhere), merge it.
\* merged: whether git merge was run.
syncRepository(g, targetBranch, parentBranch, fallbackBranch, ff, o, m) ==
    LET f  == GitFetch(g, ff)
        a  == FallbackAttempt(f.g, targetBranch, o)
        useFallback == parentBranch = NoBranch \/ ~BranchKnown(a.g, parentBranch)
        branchToMerge == IF useFallback THEN fallbackBranch ELSE parentBranch
        mg == GitMerge(a.g, branchToMerge, m)
        none == [g |-> g, success |-> FALSE, message |-> "", parentBranch |-> NoBranch,
                 wasFallback |-> FALSE, nf |-> 0, merged |-> FALSE]
    IN  IF ~g.valid
        THEN [none EXCEPT !.message = "not a git repository"]
        ELSE IF ~BranchKnown(f.g, targetBranch)
        THEN [none EXCEPT !.g = f.g, !.message = "branch not found", !.nf = Bit(ff)]
        ELSE IF a.kind \notin {"local", "remote"}
        THEN [none EXCEPT !.g = a.g, !.message = "failed to switch",
                          !.nf = Bit(ff) + a.nf]
        ELSE IF ~BranchKnown(a.g, branchToMerge)
        THEN [none EXCEPT !.g = a.g, !.message = "branch not found to merge from",
                          !.parentBranch = branchToMerge, !.wasFallback = useFallback,
                          !.nf = Bit(ff) + a.nf]
        ELSE [g |-> mg.g, success |-> mg.ok,
              message |-> IF mg.conflict THEN "CONFLICT - resolve manually"
                          ELSE IF ~mg.ok THEN "merge failed"
                          ELSE IF mg.uptodate THEN "already up to date"
                          ELSE "merged successfully",
              parentBranch |-> branchToMerge, wasFallback |-> useFallback,
              nf |-> Bit(ff) + a.nf + Bit(m = "failed"), merged |-> TRUE]

\* runSyncCmd up to its loop: the target branch is the argument, the parent
\* and the fallback branch come from the `sync` section of the
\* configuration (no parent: "", no fallback: defaultFallbackBranch).
StartSync ==
    /\ pc = "idle"
    /\ runs # <<>> /\ Head(runs) = "sync"
    /\ \E targetBranch \in {"feat", "dev"}, parentBranch \in {NoBranch, "dev", "main"},
          fallbackBranch \in {NoBranch, "dev"} :
           /\ parentBranch # targetBranch
           /\ args' = [NoArgs EXCEPT
                          !.cmd = "sync", !.branches = <<targetBranch>>,
                          !.parent = parentBranch,
                          !.fallback = IF fallbackBranch = NoBranch
                                       THEN defaultFallbackBranch ELSE fallbackBranch]
    /\ task' = [r \in Repos |-> NoTask]
    /\ out' = NoOut
    /\ pc' = "sync_loop"
    /\ runs' = Tail(runs)
    /\ UNCHANGED <<inv, config, git, history, histFile, clock, faults, pre>>

\* runSyncCmd, one turn of its loop, the repositories taken in order.
SyncRepo(r) ==
    /\ pc = "sync_loop"
    /\ r \in config.repositories
    /\ task[r].st = "none"
    /\ \A q \in config.repositories : Before(q, r) => task[q].st = "synced"
    /\ \E ff \in BOOLEAN, o \in OutcomesUpTo[MaxFaults - faults], m \in MergeOutcomes :
           LET x == syncRepository(git[r], args.branches[1], args.parent, args.fallback,
                                   ff, o, m)
           IN  /\ x.nf = Bit(ff) + NumFail(o) + Bit(m = "failed")
               /\ ~x.merged => m = "uptodate"
               /\ faults + x.nf <= MaxFaults
               /\ faults' = faults + x.nf
               /\ git' = [git EXCEPT ![r] = x.g]
               /\ task' = [task EXCEPT ![r] =
                             [NoTask EXCEPT !.st = "synced", !.success = x.success,
                                            !.message = x.message,
                                            !.to = x.parentBranch]]
               /\ out' = Count(out, x.success)
    /\ UNCHANGED <<inv, config, history, histFile, clock, pc, args, pre, runs>>

SyncSummaryLine(o) ==
    IF o.fail = 0
    THEN <<"All", o.success, "repositories synced successfully!">>
    ELSE <<o.success, "succeeded,", o.fail, "failed">>

\* runSyncCmd after the loop: the summary.
SyncSummary ==
    /\ pc = "sync_loop"
    /\ \A r \in config.repositories : task[r].st = "synced"
    /\ pc' = "idle"
    /\ out' = Exit(PrintLine(out, SyncSummaryLine(out)), 0)
    /\ UNCHANGED <<inv, config, git, history, histFile, clock, args, task, faults, pre, runs>>

NextSync ==
    \/ StartSync
    \/ \E r \in Repos : SyncRepo(r)
    \/ SyncSummary

NextSwitch ==
    \/ StartSwitch
    \/ \E r \in Repos : DryRunRepo(r)
    \/ DryRunComplete
    \/ SwitchHistory
    \/ SwitchLaunch
    \/ \E r \in Repos : ResultBegin(r)
    \/ \E r \in Repos : ResultTry(r)
    \/ \E r \in Repos : Collect(r)
    \/ SwitchSummary
    \/ \E r \in Repos : TaskStash(r)
    \/ \E r \in Repos : FallbackTry(r)
    \/ SwitchCompleted

NextRevert ==
    \/ StartRevert
    \/ \E r \in Repos : RevertRepo(r)
    \/ RevertDone

NextPush ==
    \/ StartPush
    \/ \E r \in Repos : PushRepo(r)
    \/ \E r \in Repos : CollectPush(r)
    \/ PushSummary

Next == NextSwitch \/ NextRevert \/ RunHistory \/ NextPush

NextHistory == SaveState \/ NextRevert

NextInitialize ==
    \/ StartInitializeSwitch
    \/ \E r \in Repos : ProbeStatus(r)
    \/ \E r \in Repos : ProbeWriteBegin(r)
    \/ \E r \in Repos : ProbeWriteEnd(r)
    \/ ProbeWait
    \/ \E r \in Repos : TaskStash(r)
    \/ \E r \in Repos : FallbackTry(r)
    \/ InitializeSwitchDone

Spec == Init /\ [][Next]_vars

SpecWide == InitWide /\ [][NextSwitch]_vars

SpecHistory == InitSnapshots /\ [][NextHistory]_vars

SpecInitialize == InitInitialize /\ [][NextInitialize]_vars

SpecSync == InitSync /\ [][NextSync]_vars

SpecWriters == InitWriters /\ [][NextWriters]_vars

NextLive == NextSwitch \/ NextPush

\* Every git subprocess started for repository r returns: the goroutine of
\* r takes its next step.
SubprocessesReturn(r) ==
    WF_vars(ResultBegin(r) \/ ResultTry(r) \/ TaskStash(r) \/ FallbackTry(r)
               \/ PushRepo(r))

\* The command's own goroutine runs: it launches, receives from the result
\* channel, and returns from wg.Wait().
CommandRuns ==
    WF_vars(SwitchHistory \/ SwitchLaunch \/ (\E r \in Repos : Collect(r))
               \/ SwitchSummary \/ SwitchCompleted
               \/ (\E r \in Repos : CollectPush(r)) \/ PushSummary)

SpecLive ==
    InitLive /\ [][NextLive]_vars /\ CommandRuns /\ \A r \in Repos : SubprocessesReturn(r)

\* SpecLive with a subprocess of r1 that may never return.
SpecHung ==
    InitLive /\ [][NextLive]_vars /\ CommandRuns /\ SubprocessesReturn("r2")

\* ============================================================== claims
\* A switch on the plain path, a switch on the autostash path.
\* The states the history file holds, as LoadBranchHistory reads them.
HistoryStates == Unmarshal(history)

\* A switch that passed the configuration checks and is not a dry run.
Switching == args.cmd = "switch" /\ args.read = "ok" /\ ~args.dryRun

PlainSwitch == Switching /\ args.autostash = EmptyStr
StashSwitch == Switching /\ args.autostash # EmptyStr

\* How an attempt ends the loop, how it lets the loop go on.
Landed == {"already", "local", "remote"}
Skipped == {"absent", "failed"}

\* The candidates a fault-free resolver can land on from repository state g.
Reachable(g) == {g.cur} \cup g.local \cup g.remote \cup g.origin

\* The least of a set of positions (0: the set is empty).
FirstIn(S) == IF S = {} THEN 0 ELSE CHOOSE i \in S : \A j \in S : i <= j

\* ------------------------------------------------------------------ C1
\* C1: SwitchBranchWithResult tries the candidates in list order, one attempt
\* each; every attempt before the last one made was absent or failed (a
\* failed check, fetch or checkout does not end the loop); the loop ends at
\* the first attempt that lands, on that candidate, and ends without success
\* only after every candidate was tried.  Without injected failures the
\* landed candidate is the first one that is the current branch, a local
\* branch or a branch of origin.
C1_FirstSuccessfulCandidateWins ==
    \A r \in config.repositories :
        (PlainSwitch /\ pre.git[r].valid
            /\ task[r].st \in {"result_loop", "sent", "done"}) =>
            LET t == task[r]
                n == Len(t.tried)
                hits == {j \in 1..Len(args.branches) :
                            args.branches[j] \in Reachable(pre.git[r])}
            IN  /\ n = t.idx
                /\ \A j \in 1..n : t.tried[j].b = args.branches[j]
                /\ \A j \in 1..(n - 1) : t.tried[j].kind \in Skipped
                /\ t.st = "result_loop" =>
                      /\ n < Len(args.branches)
                      /\ \A j \in 1..n : t.tried[j].kind \in Skipped
                /\ (t.st # "result_loop" /\ t.success) =>
                      /\ n >= 1
                      /\ t.tried[n].kind \in Landed
                      /\ t.to = args.branches[n]
                      /\ git[r].cur = t.to
                /\ (t.st # "result_loop" /\ ~t.success) =>
                      /\ n = Len(args.branches)
                      /\ \A j \in 1..n : t.tried[j].kind \in Skipped
                      /\ git[r].cur = pre.git[r].cur
                /\ (t.st # "result_loop" /\ faults = 0) =>
                      IF hits = {} THEN ~t.success
                      ELSE t.success /\ n = FirstIn(hits)

\* A repository landed on the second candidate after the attempt on the
\* first one failed.
C1_Witness ==
    /\ PlainSwitch
    /\ task["r1"].st = "done"
    /\ task["r1"].success
    /\ Len(task["r1"].tried) = 2
    /\ task["r1"].tried[1].kind = "failed"
    /\ task["r1"].tried[2].kind \in Landed
    /\ git["r1"].cur = args.branches[2]

\* ------------------------------------------------------------------ C2
\* C2: a repository that is on the first candidate when the switch starts
\* ends with success and without one git checkout started, on the plain path
\* and on the autostash path (stated for runs without injected failures).
C2_AlreadyOnFirstIsNoop ==
    \A r \in config.repositories :
        (Switching /\ faults = 0 /\ pre.git[r].valid
            /\ pre.git[r].cur = args.branches[1] /\ task[r].st = "done") =>
            (task[r].success /\ task[r].nco = 0)

\* ------------------------------------------------------------------ C3
\* The attempts of task t that found the remote-tracking ref.
FoundRemote(t) == {j \in 1..Len(t.tried) : t.tried[j].remote}

\* No candidate is a local branch of r when the switch starts, the resolver
\* has finished, and candidate k is the first whose remote-tracking ref it
\* found, the candidates before k being absent.
RemoteCase(r) ==
    /\ PlainSwitch
    /\ pre.git[r].valid
    /\ task[r].st \in {"sent", "done"}
    /\ \A j \in 1..Len(args.branches) : args.branches[j] \notin pre.git[r].local
    /\ FoundRemote(task[r]) # {}
    /\ \A j \in 1..(FirstIn(FoundRemote(task[r])) - 1) : task[r].tried[j].kind = "absent"

\* C3 as stated: in that case the resolver ends on candidate k with
\* FromRemote = true.
C3_EndsOnFirstRemoteCandidate ==
    \A r \in config.repositories :
        RemoteCase(r) =>
            LET k == FirstIn(FoundRemote(task[r]))
            IN  /\ task[r].success
                /\ task[r].to = args.branches[k]
                /\ task[r].fromRemote

\* C3: in that case the resolver starts the tracking checkout of candidate k
\* and, when that fails, the plain checkout; when one of the two succeeds it
\* ends on k with FromRemote = true, and when both fail it goes on to the
\* candidates after k, failing when there is none.
C3_RemoteTrackingOrNextCandidate ==
    \A r \in config.repositories :
        RemoteCase(r) =>
            LET t == task[r]
                k == FirstIn(FoundRemote(t))
                e == t.tried[k]
            IN  /\ e.nco \in {1, 2}
                /\ IF e.kind = "remote"
                   THEN /\ t.success /\ t.fromRemote /\ ~t.alreadyOnIt
                        /\ t.to = args.branches[k]
                        /\ Len(t.tried) = k
                        /\ git[r].cur = t.to
                        /\ t.to \in git[r].local
                   ELSE /\ e.kind = "failed"
                        /\ e.err = "remote_checkout"
                        /\ e.nco = 2
                        /\ t.to # args.branches[k]
                        /\ IF k = Len(args.branches)
                           THEN ~t.success /\ git[r].cur = pre.git[r].cur
                           ELSE Len(t.tried) > k

\* The second candidate was found on the remote only, its tracking checkout
\* failed and the plain checkout landed on it.
C3_Witness ==
    /\ RemoteCase("r1")
    /\ FirstIn(FoundRemote(task["r1"])) = 2
    /\ task["r1"].tried[2].nco = 2
    /\ task["r1"].success
    /\ task["r1"].fromRemote
    /\ git["r1"].cur = args.branches[2]

\* ------------------------------------------------------------------ C4
\* C4: on the autostash path, for a repository whose working tree is dirty
\* when the switch starts, every step that starts a git checkout comes after
\* the finished stash step (the stash is pushed, it is stash@{0} and carries
\* the label), and the stash push itself runs when no checkout was started.
C4_StashBeforeCheckout ==
    [][\A r \in config.repositories :
          (StashSwitch /\ pre.git[r].valid /\ pre.git[r].dirty) =>
              /\ task'[r].nco > task[r].nco =>
                    /\ task[r].st = "fallback"
                    /\ task[r].nstash = 1
                    /\ Len(git[r].stashes) = Len(pre.git[r].stashes) + 1
                    /\ git[r].stashes[1].msg = StashMessage(args.autostash)
                    /\ ~git[r].dirty
              /\ task'[r].nstash > task[r].nstash =>
                    /\ task[r].st = "stash"
                    /\ task[r].nco = 0
                    /\ task[r].idx = 0]_vars

\* A dirty repository was stashed and then checked out.
C4_Witness ==
    /\ StashSwitch
    /\ pre.git["r1"].dirty
    /\ task["r1"].nstash = 1
    /\ task["r1"].nco > 0
    /\ task["r1"].success

\* ------------------------------------------------------------------ C5
\* C5: for a repository whose working tree is clean, the finished stash step
\* has created no stash and left the repository as it was, and the resolver
\* that follows treats the next candidate as the resolver of a switch
\* without autostash does: under the same outcomes of the git subprocesses
\* both leave the repository in the same state and both land or both do not.
C5_CleanTreeResolvesAsPlain ==
    \A r \in config.repositories :
        (StashSwitch /\ pre.git[r].valid /\ ~pre.git[r].dirty
            /\ task[r].st = "fallback") =>
            /\ task[r].nstash = 0
            /\ git[r].stashes = pre.git[r].stashes
            /\ task[r].idx = 0 => git[r] = pre.git[r]
            /\ \A o \in Outcomes :
                  LET b == args.branches[task[r].idx + 1]
                      p == ResultAttempt(git[r], pre.git[r].cur, b, o)
                      f == FallbackAttempt(git[r], b, o)
                  IN  /\ p.g = f.g
                      /\ (p.kind \in Landed) = (f.kind \in Landed)

\* ------------------------------------------------------------------ C6
\* C6: after a switch with autostash that recorded a snapshot and stashed the
\* dirty working tree of a repository, the entry of that repository in the
\* recorded snapshot carries the stash label (which is what a revert with
\* applyStashes needs to apply that stash).
C6_SnapshotCarriesStashLabel ==
    \A r \in config.repositories :
        (StashSwitch /\ pc = "idle" /\ pre.saved /\ pre.git[r].valid
            /\ pre.git[r].dirty /\ task[r].nstash = 1
            /\ Len(git[r].stashes) = Len(pre.git[r].stashes) + 1) =>
            /\ r \in DOMAIN HistoryStates[Len(history)].repos
            /\ HistoryStates[Len(history)].repos[r].stash = args.autostash

\* ------------------------------------------------------------------ C7
\* A step of the running switch that pushes a stash or starts a checkout.
Mutates ==
    /\ args.cmd = "switch"
    /\ \E r \in Repos : \/ task'[r].nco > task[r].nco
                        \/ task'[r].nstash > task[r].nstash

\* The newest state of the history is the snapshot of the running switch: it
\* holds, for every repository whose current branch could be read, the branch
\* the switch found it on.
SnapshotIsNewest ==
    /\ history # <<>>
    /\ HistoryStates[Len(history)].ts = clock
    /\ \A r \in config.repositories :
          IF pre.git[r].valid
          THEN /\ r \in DOMAIN HistoryStates[Len(history)].repos
               /\ HistoryStates[Len(history)].repos[r].branch = pre.git[r].cur
          ELSE r \notin DOMAIN HistoryStates[Len(history)].repos

C9_UndoRoundTrip ==
    \A r \in config.repositories :
        (/\ args.cmd = "revert" /\ pc = "idle" /\ out.msg = "reverted"
         /\ args.index = 0
         /\ pre.ran /\ pre.saved /\ r \in pre.landed
         /\ pre.git[r].valid /\ pre.git[r].cur \in pre.git[r].local
         /\ task[r].success) =>
            git[r].cur = pre.git[r].cur

\* The switch moved the repository, the revert without index brought it
\* back.
C9_Witness ==
    /\ args.cmd = "revert" /\ pc = "idle" /\ out.msg = "reverted"
    /\ ~args.given /\ args.index = 0
    /\ pre.ran /\ pre.saved /\ "r1" \in pre.landed
    /\ pre.left["r1"].cur # pre.git["r1"].cur
    /\ task["r1"].success
    /\ git["r1"].cur = pre.git["r1"].cur

\* ------------------------------------------------------------------ C10
\* C10: with a readable history of n >= 1 states, a revert with user index i
\* in 0..n-1 is not rejected and selects the state at offset n-1-i of the
\* array (position n-i here, positions counting from 1): index 0, which is
\* also the index of a revert given none, selects the state appended last,
\* the one with the newest timestamp, and index n-1 the oldest.
C10_IndexCountsFromNewest ==
    (args.cmd = "revert" /\ histFile = "ok" /\ Len(history) >= 1
        /\ args.index \in 0..(Len(history) - 1)) =>
        /\ out.msg \in {"none", "reverted"}
        /\ args.state = HistoryStates[Len(history) - args.index]
        /\ ~args.given => args.index = 0
        /\ args.index = 0 =>
              /\ args.state.ts = clock
              /\ \A j \in 1..Len(history) : HistoryStates[j].ts <= args.state.ts
        /\ args.index = Len(history) - 1 =>
              \A j \in 1..Len(history) : HistoryStates[j].ts >= args.state.ts

\* A revert to the oldest of several states has returned.
C10_Witness ==
    /\ args.cmd = "revert" /\ pc = "idle" /\ out.msg = "reverted"
    /\ Len(history) >= 2
    /\ args.index = Len(history) - 1
    /\ args.state = HistoryStates[1]
    /\ args.state.ts < clock

\* ------------------------------------------------------------------ C11
\* A revert has returned whose index is outside 0..length-1 of a history
\* that could be loaded.
OutOfRangeRevert ==
    /\ args.cmd = "revert"
    /\ pc = "idle"
    /\ histFile # "corrupt"
    /\ args.index \notin 0..(Len(history) - 1)

\* C11 as stated: every such revert, the one on the empty history included,
\* ends with the HistoryIndexInvalid error and exit status 1.
C11_OutOfRangeAlwaysInvalid ==
    OutOfRangeRevert =>
        /\ out.exit = 1
        /\ out.printed # <<>>
        /\ out.printed[1][1] = ErrHistoryIndexInvalid

\* C11: such a revert on a history that is not empty ends with the
\* HistoryIndexInvalid error as its first line and exit status 1; on the
\* empty history it prints "No branch history found." and returns with exit
\* status 0, whatever the index.
C11_OutOfRangeRejected ==
    OutOfRangeRevert =>
        IF Len(history) = 0
        THEN /\ out.exit = 0
             /\ out.printed = << <<"No branch history found.">> >>
        ELSE /\ out.exit = 1
             /\ out.printed # <<>>
             /\ out.printed[1] = <<ErrHistoryIndexInvalid, "Invalid index">>

\* A revert with index = length on a history that is not empty was rejected.
C11_Witness ==
    /\ OutOfRangeRevert
    /\ Len(history) >= 1
    /\ args.index = Len(history)
    /\ out.exit = 1
    /\ out.printed[1][1] = ErrHistoryIndexInvalid

\* ------------------------------------------------------------------ C12
\* C12: from the step that starts a revert with an out-of-range index on, no
\* step changes a repository or the history file: the command has returned,
\* no repository entry was taken up, no checkout and no stash apply started.
C12_OutOfRangeChangesNothing ==
    [][(args'.cmd = "revert" /\ args'.index \notin 0..(Len(history') - 1)) =>
          /\ git' = git
          /\ history' = history
          /\ histFile' = histFile
          /\ pc' = "idle"
          /\ \A r \in Repos : task'[r] = NoTask]_vars

\* After a switch that moved a repository, a revert with a negative index
\* was rejected and the repository is where the switch left it.
C12_Witness ==
    /\ OutOfRangeRevert
    /\ Len(history) >= 1
    /\ args.index < 0
    /\ out.exit = 1
    /\ pre.ran
    /\ pre.left["r1"].cur # pre.git["r1"].cur
    /\ git = pre.left

\* ------------------------------------------------------------------ C13
\* C13: a revert rejected for its index has printed the line with the valid
\* range 0..length-1.
C13_ValidRangeReported ==
    (args.cmd = "revert" /\ pc = "idle" /\ out.msg = "invalid index") =>
        \E i \in 1..Len(out.printed) : out.printed[i] = ValidRangeLine(Len(history))

\* ------------------------------------------------------------------ C14
\* C14: after a snapshot was appended to any loadable history with
\* SaveStateToHistory, the state that a revert with index 0 gets from
\* LoadBranchHistory is equal to that snapshot: timestamp, description, and
\* the branch and stash name of every repository entry.
C14_AppendLoadLookupRoundTrip ==
    (args.cmd = "revert" /\ pre.saved /\ args.index = 0) =>
        /\ pc \in {"rv_run", "idle"}
        /\ out.msg \notin {"history read failed", "no history", "invalid index"}
        /\ args.state = pre.state

\* A snapshot with a description, a stash name in one entry and an empty
\* branch in the other was appended to a history of two states and looked up.
C14_Witness ==
    /\ args.cmd = "revert" /\ pre.saved /\ args.index = 0
    /\ Len(history) = 3
    /\ pre.state.description # EmptyStr
    /\ DOMAIN pre.state.repos = Repos
    /\ pre.state.repos["r1"].stash # EmptyStr
    /\ pre.state.repos["r2"] = [branch |-> NoBranch, stash |-> EmptyStr]
    /\ args.state = pre.state

\* ------------------------------------------------------------------ C15
\* C15: every step of a switch, a revert or a history command leaves the
\* states the history held in place, unmodified and in order (the old
\* history is a prefix of the new one), and no step of a revert or of a
\* history command changes the history file at all.
C15_HistoryAppendOnly ==
    [][/\ Len(history') >= Len(history)
       /\ SubSeq(Unmarshal(history'), 1, Len(history)) = Unmarshal(history)
       /\ SubSeq(history', 1, Len(history)) = history
       /\ args'.cmd \in {"revert", "history"} =>
              (history' = history /\ histFile' = histFile)]_vars

\* A switch added its snapshot behind the two states the history held, and
\* the revert that followed has finished.
C15_Witness ==
    /\ args.cmd = "revert" /\ out.msg = "reverted"
    /\ pre.ran /\ pre.saved
    /\ Len(history) = 3
    /\ \A i \in 1..2 : HistoryStates[i] = OldState(i, config.repositories)
    /\ HistoryStates[3] = pre.state

\* ------------------------------------------------------------------ C16
\* C16: while the history file does not exist, LoadBranchHistory yields the
\* empty history without an error; the history step of a switch that records
\* history then creates the file with exactly one snapshot, that of the
\* repositories as they are, and a revert or a history command reports that
\* there is no history and exits with status 0.
C16_MissingFileIsEmptyHistory ==
    [][histFile = "absent" =>
          /\ LoadBranchHistory = [ok |-> TRUE, states |-> <<>>]
          /\ (pc = "sw_history" /\ RecordsHistory) =>
                 /\ histFile' = "ok"
                 /\ Len(history') = 1
                 /\ Unmarshal(history')[1] =
                        collectCurrentState(clock + 1, config.repositories)
                 /\ pc' = "sw_launch"
          /\ (pc = "idle" /\ runs' # runs /\ args'.cmd \in {"revert", "history"}) =>
                 /\ out'.msg = "no history"
                 /\ out'.exit = 0]_vars

\* The first switch of a batch has finished and the history holds its one
\* snapshot.
C16_Witness ==
    /\ args.cmd = "switch" /\ pc = "idle"
    /\ pre.ran /\ pre.saved
    /\ histFile = "ok"
    /\ Len(history) = 1
    /\ HistoryStates[1] = pre.state
    /\ \E r \in Repos : task[r].success

\* ------------------------------------------------------------------ C17
\* The running or last command is a parallel batch with a collector.
ParallelBatch ==
    \/ PlainSwitch
    \/ args.cmd = "push"

\* The repositories whose result the collector has received.
Collected == {r \in config.repositories : task[r].st = "done"}

\* C17: in a plain switch or a push, the collector's counts are at every
\* moment the numbers of successful and failed repositories whose result it
\* has received, each counted once; a repository whose task has not returned
\* can always take its next step, whatever became of the others; and when
\* the command has returned every repository is collected, successCount +
\* failCount = N, and the summary line carries the two counts.
C17_OneOutcomePerRepository ==
    ParallelBatch =>
        /\ out.success = Cardinality({r \in Collected : task[r].success})
        /\ out.fail = Cardinality({r \in Collected : ~task[r].success})
        /\ \A r \in config.repositories :
               /\ task[r].st \in {"result", "result_loop"} =>
                      ENABLED (ResultBegin(r) \/ ResultTry(r))
               /\ task[r].st = "push" => ENABLED PushRepo(r)
               /\ (task[r].st = "sent" /\ args.cmd = "switch") => ENABLED Collect(r)
               /\ (task[r].st = "sent" /\ args.cmd = "push") => ENABLED CollectPush(r)
        /\ pc = "idle" =>
               /\ Collected = config.repositories
               /\ out.success + out.fail = Cardinality(config.repositories)
               /\ out.printed # <<>>
               /\ out.printed[Len(out.printed)] =
                      IF args.cmd = "switch"
                      THEN SummaryLine(out.success, out.fail)
                      ELSE PushSummaryLine(out.success, out.fail)
               /\ out.fail # 0 =>
                      out.printed[Len(out.printed)] =
                          <<ToString(Cardinality({r \in config.repositories :
                                                     task[r].success})),
                            "succeeded,",
                            ToString(Cardinality({r \in config.repositories :
                                                     ~task[r].success})),
                            "failed">>

\* A plain switch of two repositories has returned with one success and one
\* failure.
C17_Witness ==
    /\ args.cmd = "switch" /\ args.autostash = EmptyStr /\ pc = "idle"
    /\ task["r1"].success /\ ~task["r2"].success
    /\ out.success = 1 /\ out.fail = 1
    /\ out.printed[Len(out.printed)] = <<"1", "succeeded,", "1", "failed">>

\* ------------------------------------------------------------------ C18
\* C18: a switch that has returned printed, as its last line, the summary
\* with the numbers of repositories that succeeded and that failed.
C18_SummaryReportsCounts ==
    (Switching /\ pc = "idle") =>
        /\ out.printed # <<>>
        /\ out.printed[Len(out.printed)] =
               SummaryLine(Cardinality({r \in config.repositories : task[r].success}),
                           Cardinality({r \in config.repositories : ~task[r].success}))

\* ------------------------------------------------------------------ C19
\* C19: when a switch or a push has reported completion (its last line is
\* printed, SwitchBranchesWithStash has returned its map), every
\* per-repository task has finished: none is still stashing, resolving or
\* pushing, and the map of stashed repositories holds every repository that
\* was stashed and switched.
C19_BarrierBeforeCompletion ==
    ((Switching \/ args.cmd = "push") /\ (pc = "idle" \/ out.exited)) =>
        /\ pc = "idle" /\ out.exited
        /\ \A r \in config.repositories : task[r].st = "done"
        /\ args.autostash # EmptyStr =>
               out.stashedRepos = {r \in config.repositories :
                                      task[r].success /\ task[r].stashed}

\* An autostash switch of two repositories has returned: one was stashed and
\* switched, the other failed.
C19_Witness ==
    /\ args.cmd = "switch" /\ args.autostash # EmptyStr
    /\ pc = "idle" /\ out.exited
    /\ out.stashedRepos = {"r1"}
    /\ task["r1"].st = "done" /\ task["r1"].success
    /\ task["r2"].st = "done" /\ ~task["r2"].success

\* ------------------------------------------------------------------ C20
\* The entries of the state a revert works on.
Entries == DOMAIN args.state.repos

\* C20: RevertToState takes up every repository entry of the state exactly
\* once. While it runs, a pending entry can always be processed, whatever
\* became of the others, and a processed entry is never touched again. When
\* it has returned, every entry is processed and no other repository was
\* touched; an entry with an empty branch was skipped with no git operation
\* (the repository is as the revert found it), and an entry whose switch
\* failed or whose stash was not found carries its error.
C20_EveryEntryProcessedOnce ==
    /\ [](args.cmd = "revert" =>
            /\ \A r \in Repos :
                   /\ task[r].st \in {"none", "entry", "done"}
                   /\ task[r].st = "entry" => (r \in Entries /\ ENABLED RevertRepo(r))
                   /\ (task[r].st = "done" /\ args.state.repos[r].branch = NoBranch) =>
                          /\ task[r].message = "skipped"
                          /\ task[r].nco = 0 /\ task[r].applied = 0
                          /\ ~task[r].success
                          /\ git[r] = pre.left[r]
                   /\ (task[r].st = "done" /\ args.state.repos[r].branch # NoBranch) =>
                          /\ task[r].success = (git[r].cur = args.state.repos[r].branch
                                                   /\ task[r].err \in {"none", "no_stash", "apply"})
                          /\ ~task[r].success => task[r].err # "none"
                          /\ task[r].err = "no_stash" =>
                                 FindStash(git[r], args.state.repos[r].stash) = 0
                   /\ task[r].st = "none" => git[r] = pre.left[r]
            /\ out.msg = "reverted" =>
                   \A r \in Repos : task[r].st = (IF r \in Entries THEN "done" ELSE "none"))
    /\ [][(args.cmd = "revert" /\ args'.cmd = "revert") =>
             \A r \in Repos :
                 task[r].st = "done" => (task'[r] = task[r] /\ git'[r] = git[r])]_vars

\* A revert has returned: the entry with an empty branch was skipped, the
\* other was switched although its stash was not found.
C20_Witness ==
    /\ args.cmd = "revert" /\ out.msg = "reverted"
    /\ Entries = Repos
    /\ args.state.repos["r1"].branch = NoBranch
    /\ task["r1"].message = "skipped"
    /\ args.state.repos["r2"].stash # EmptyStr
    /\ task["r2"].success /\ task["r2"].err = "no_stash"
    /\ git["r2"].cur = "dev"

\* ------------------------------------------------------------------ C21
\* C21: no step of a revert changes the stash list of a repository: after a
\* successful ApplyStash the list holds the same entries in the same order,
\* and the stash that was applied is still the one ApplyStash finds for the
\* entry's stash name.
C21_ApplyKeepsStash ==
    [][args'.cmd = "revert" =>
          \A r \in Repos :
              /\ git'[r].stashes = git[r].stashes
              /\ (task'[r].applied # 0 /\ task[r].applied = 0) =>
                     /\ git'[r].dirty
                     /\ FindStash(git'[r], args'.state.repos[r].stash) = task'[r].applied
                     /\ FindStash(git[r], args'.state.repos[r].stash) = task'[r].applied]_vars

\* A revert applied the stash of the first repository, and the stash is still
\* in the list.
C21_Witness ==
    /\ args.cmd = "revert" /\ out.msg = "reverted"
    /\ task["r1"].applied = 1
    /\ task["r1"].err = "none"
    /\ git["r1"].dirty
    /\ git["r1"].stashes = pre.left["r1"].stashes
    /\ Len(git["r1"].stashes) = 1

\* ------------------------------------------------------------------ C22
\* C22: no two per-repository tasks are inside a write to the map shared
\* between the tasks at the same time.
C22_SharedMapWritesAreExclusive ==
    \A q \in Repos, r \in Repos :
        q # r => ~(task[q].st = "writing" /\ task[r].st = "writing")

\* ------------------------------------------------------------------ C23
\* C23: in a parallel batch the console never shows a line about another
\* repository between two lines about the same repository.
C23_OutputPerRepositoryIsAtomic ==
    (Switching \/ args.cmd = "push") => ~out.split

\* ------------------------------------------------------------------ C24
\* C24: a switch run with --store-history=false appends no snapshot: its
\* history step leaves the history file as it was.
C24_StoreHistoryFalseAppendsNothing ==
    [][(pc = "sw_history" /\ ~args.storeHistory)
          => (history' = history /\ histFile' = histFile)]_vars

\* ------------------------------------------------------------------ C25
DryRunning == args.cmd = "switch" /\ args.dryRun

\* C25: switch --dry-run changes nothing: no step of it starts a checkout
\* or a stash, and the current branch, the local branches, the working
\* tree, the stash list of every repository and the history file stay as
\* they are.
C25_DryRunChangesNothing ==
    [][DryRunning =>
          /\ history' = history
          /\ histFile' = histFile
          /\ \A r \in Repos :
                /\ git'[r].cur = git[r].cur
                /\ git'[r].local = git[r].local
                /\ git'[r].dirty = git[r].dirty
                /\ git'[r].stashes = git[r].stashes
                /\ task'[r].nco = 0
                /\ task'[r].nstash = 0]_vars

\* A dry run over a recording configuration has finished; it reported a
\* target other than the current branch for a repository with changes in
\* its working tree.
C25_Witness ==
    /\ DryRunning
    /\ pc = "idle"
    /\ out.exited
    /\ config.recordHistory
    /\ \E r \in config.repositories :
          /\ task[r].st = "reported"
          /\ task[r].to # NoBranch
          /\ ~task[r].alreadyOnIt
          /\ git[r].dirty

\* ------------------------------------------------------------------ C26
\* C26: what switch --dry-run reports for a repository (target branch,
\* from remote or not, already on it or not) is what SwitchBranchWithResult
\* sends when run on the state the dry run found, no subprocess failing.
C26_DryRunPredictsSwitch ==
    \A r \in config.repositories :
        (DryRunning /\ faults = 0 /\ task[r].st = "reported") =>
            LET real == SwitchBranchWithResult(pre.git[r], args.branches)
            IN  /\ task[r].to = real.to
                /\ task[r].fromRemote = real.fromRemote
                /\ task[r].alreadyOnIt = real.alreadyOnIt

\* ------------------------------------------------------------------ C27
\* C27: a repository in which the merge of sync hit a conflict is reported
\* as failed and is not left in the merging state.
C27_ConflictLeavesRepositoryClean ==
    \A r \in config.repositories :
        (args.cmd = "sync" /\ task[r].st = "synced"
            /\ task[r].message = "CONFLICT - resolve manually") =>
            (~task[r].success /\ ~git[r].merging)

\* ------------------------------------------------------------------ C28
\* C28: a switch that finds a configuration error touches no repository:
\* in every step of it the repositories and the history file stay as they
\* are and no per-repository task exists.
C28_ConfigErrorTouchesNothing ==
    [][(args'.cmd = "switch" /\ args'.read # "ok") =>
          /\ git' = git
          /\ history' = history
          /\ histFile' = histFile
          /\ \A r \in Repos : task'[r].st = "none"]_vars

\* A switch over a recording configuration has exited with a configuration
\* error.
C28_Witness ==
    /\ args.cmd = "switch"
    /\ args.read # "ok"
    /\ config.recordHistory
    /\ out.exited /\ out.exit = 1
    /\ Len(out.printed) = 1
    /\ pc = "idle"

\* ------------------------------------------------------------------ C29
\* C29: the snapshot a switch saves has an entry for every configured
\* repository, with an empty branch where the current branch could not be
\* read.
C29_SnapshotHasEveryRepository ==
    (Switching /\ pre.saved) =>
        /\ DOMAIN pre.state.repos = config.repositories
        /\ \A r \in config.repositories :
              ~GetCurrentBranch(pre.git[r]).ok => pre.state.repos[r].branch = NoBranch

\* ------------------------------------------------------------------ C30
\* C30: wherever a resolver stands before a candidate that is not a local
\* branch but has its remote-tracking ref, a failing git fetch (every other
\* subprocess succeeding) does not keep the candidate from being checked
\* out: the attempt lands on it, from remote.
C30_FetchIsBestEffort ==
    \A r \in config.repositories :
        (Switching /\ task[r].st \in {"result_loop", "fallback"}) =>
            LET b == args.branches[task[r].idx + 1]
                o == [NoFailure EXCEPT !.fetch = TRUE]
                a == IF task[r].st = "result_loop"
                     THEN ResultAttempt(git[r], task[r].from, b, o)
                     ELSE FallbackAttempt(git[r], b, o)
            IN  (b \notin git[r].local /\ b \in git[r].remote) =>
                    (a.kind = "remote" /\ a.g.cur = b)

\* ------------------------------------------------------------------ C31
\* The attempts of task t that ended with an error.
FailedAttempts(t) == {j \in 1..Len(t.tried) : t.tried[j].kind = "failed"}

\* The message of a resolver that found no candidate and met no error.
NoCandidateMatched == {"no matching branch found", "none of the specified branches exist"}

\* C31: a resolver that has tried every candidate without landing reports
\* the error of its last failed attempt, and reports the generic
\* no-candidate-matched message exactly when no attempt failed.
C31_ExhaustionCarriesLastError ==
    \A r \in config.repositories :
        (Switching /\ pre.git[r].valid /\ task[r].st \in {"sent", "done"}
            /\ ~task[r].success /\ task[r].idx = Len(args.branches)) =>
            LET t == task[r]
                errs == FailedAttempts(t)
            IN  /\ (t.message \in NoCandidateMatched) <=> (errs = {})
                /\ errs # {} =>
                      t.err = t.tried[CHOOSE j \in errs : \A k \in errs : k <= j].err

\* ------------------------------------------------------------------ C32
\* The positions of `git stash list` whose line contains the label.
Matches(g, label) == {i \in 1..Len(g.stashes) : Contains(StashLine(g, i), label)}

\* C32: where a revert has switched a repository and its entry has a stash
\* label to apply, the stash applied is the first of the list whose line
\* contains the label; when no line contains it nothing is applied and the
\* error is "no stash found".
C32_FirstMatchApplied ==
    \A r \in Repos :
        (args.cmd = "revert" /\ args.applyStashes /\ task[r].st = "done"
            /\ task[r].success /\ r \in DOMAIN args.state.repos) =>
            LET label == args.state.repos[r].stash
                hits == Matches(git[r], label)
                t == task[r]
            IN  label # EmptyStr =>
                    IF hits = {}
                    THEN /\ t.applied = 0
                         /\ t.err = "no_stash"
                         /\ git[r].dirty = pre.left[r].dirty
                    ELSE /\ t.applied \in hits \cup {0}
                         /\ t.applied # 0 => \A j \in hits : t.applied <= j
                         /\ t.applied = 0 => (t.err = "apply"
                                                 /\ git[r].dirty = pre.left[r].dirty)

\* A revert applied the second stash of a list of three, in which two lines
\* contain the label: the newer of the two.
C32_Witness ==
    /\ args.cmd = "revert" /\ out.msg = "reverted"
    /\ Len(git["r1"].stashes) = 3
    /\ "r1" \in DOMAIN args.state.repos
    /\ Matches(git["r1"], args.state.repos["r1"].stash) = {2, 3}
    /\ task["r1"].applied = 2
    /\ git["r1"].dirty

\* ------------------------------------------------------------------ C33
\* C33: when SwitchBranchesWithStash has returned, its map holds exactly
\* the repositories for which this run created a stash, whether or not the
\* resolution that followed landed on a branch.
C33_MapRecordsEveryStash ==
    (StashSwitch /\ pc = "idle") =>
        out.stashedRepos =
            {r \in config.repositories :
                /\ task[r].stashed
                /\ Len(git[r].stashes) = Len(pre.git[r].stashes) + 1}

\* ------------------------------------------------------------------ C34
\* The states of the history file.
InFile == {HistoryStates[i] : i \in 1..Len(history)}

\* Invocation q read the history after invocation p had written it.
ReadAfter(p, q) == \E i \in 1..Len(inv[q].states) : inv[q].states[i] = inv[p].state

\* C34: when two invocations have each saved a snapshot, both snapshots are
\* in the history file if one invocation read the file after the other had
\* written it, and only the snapshot written last is in the file if both
\* read it before either wrote.
C34_LostUpdateWhenInterleaved ==
    (inv["a"].saved /\ inv["b"].saved) =>
        IF ReadAfter("a", "b") \/ ReadAfter("b", "a")
        THEN /\ {inv["a"].state, inv["b"].state} \subseteq InFile
             /\ Len(history) = clock
        ELSE /\ Cardinality({inv["a"].state, inv["b"].state} \cap InFile) = 1
             /\ HistoryStates[Len(history)].ts = clock
             /\ Len(history) = clock - 1

\* Both invocations read the file before either wrote: the file holds the
\* snapshot of b and has lost the snapshot of a.
C34_Witness ==
    /\ inv["a"].saved /\ inv["b"].saved
    /\ inv["a"].states = inv["b"].states
    /\ inv["b"].state \in InFile
    /\ inv["a"].state \notin InFile
    /\ Len(history) = Len(inv["a"].states) + 1

\* ------------------------------------------------------------------ C35
\* The goroutines of a parallel batch are running.
BatchWaiting == pc \in {"sw_wait", "push_wait"}

\* Every repository's task has finished and the command has returned.
BatchComplete ==
    /\ pc = "idle"
    /\ out.exited
    /\ \A r \in config.repositories : task[r].st = "done"

\* Every started batch completes.
BatchTerminates == BatchWaiting ~> BatchComplete

\* C35: with every subprocess returning, a parallel batch that was started
\* completes: the command returns after it has taken the result of every
\* repository; and it returns in no other way: no step ends the batch
\* while the task of a repository is unfinished, so that a subprocess that
\* never returns keeps the batch from completing.
C35_BatchCompletesIffSubprocessesReturn ==
    /\ BatchTerminates
    /\ [][(BatchWaiting /\ pc' = "idle") =>
             \A r \in config.repositories : task[r].st = "done"]_vars

\* A plain switch has returned after a repository needed two attempts and
\* a failing subprocess.
C35_Witness ==
    /\ PlainSwitch
    /\ BatchComplete
    /\ out.success + out.fail = Cardinality(config.repositories)
    /\ \E r \in config.repositories : Len(task[r].tried) = 2
    /\ faults > 0

\* ------------------------------------------------------------------ C36
\* The SwitchResults that SwitchBranchWithResult has returned: the tasks
\* of a plain switch that were sent or collected.
Returned == {r \in config.repositories : PlainSwitch /\ task[r].st \in {"sent", "done"}}

CandidateSet == {args.branches[i] : i \in 1..Len(args.branches)}

\* The origins that apply to a result.
Origins(t) ==
    {k \in Landed :
        \/ k = "already" /\ t.alreadyOnIt
        \/ k = "remote" /\ t.fromRemote
        \/ k = "local" /\ t.success /\ ~t.alreadyOnIt /\ ~t.fromRemote}

\* C36: every SwitchResult returned by SwitchBranchWithResult satisfies:
\* Success implies ToBranch is a candidate; not Success implies ToBranch
\* is empty and AlreadyOnIt and FromRemote are false; AlreadyOnIt implies
\* Success, ToBranch = FromBranch and not FromRemote; a successful result
\* has exactly one origin, the one of the attempt that ended the loop, and
\* a failed result has none.
C36_SwitchResultIsWellFormed ==
    \A r \in Returned :
        LET t == task[r] IN
        /\ t.success => t.to \in CandidateSet
        /\ ~t.success => (t.to = NoBranch /\ ~t.alreadyOnIt /\ ~t.fromRemote)
        /\ t.alreadyOnIt => (t.success /\ t.to = t.from /\ ~t.fromRemote)
        /\ t.success => (/\ Cardinality(Origins(t)) = 1
                         /\ t.tried # <<>>
                         /\ Origins(t) = {t.tried[Len(t.tried)].kind})
        /\ ~t.success => Origins(t) = {}

\* A result from a remote-tracking checkout of the second candidate, after
\* the first candidate failed.
C36_Witness ==
    /\ "r1" \in Returned
    /\ Len(args.branches) = 2
    /\ task["r1"].success /\ task["r1"].fromRemote
    /\ task["r1"].to = args.branches[2]
    /\ task["r1"].tried[1].kind = "failed"

\* ------------------------------------------------------------------ C37
\* The stash step of r failed in this switch.
StashFailed(r) == StashSwitch /\ task[r].err = "stash"

\* The step in which the stash of r fails.
StashFails(r) == StashSwitch /\ task[r].st = "stash" /\ task'[r].err = "stash"

\* C37: when stashing fails for a repository during a switch with
\* autostash, no checkout of any candidate is attempted on it: its task has
\* ended with the stash failure as its message, no candidate was tried, the
\* repository is as the command found it (same branch, same uncommitted
\* changes, same stashes) and is not recorded as stashed; and the failing
\* step changes neither the repository nor the task of another repository.
C37_StashFailureStopsThatRepositoryOnly ==
    /\ [](\A r \in config.repositories : StashFailed(r) =>
            /\ task[r].st = "done"
            /\ task[r].message = "failed to stash changes"
            /\ task[r].nco = 0 /\ task[r].tried = <<>> /\ ~task[r].success
            /\ git[r] = pre.git[r]
            /\ ~task[r].stashed /\ r \notin out.stashedRepos)
    /\ [][\A r \in config.repositories : StashFails(r) =>
            \A q \in config.repositories \ {r} :
                task'[q] = task[q] /\ git'[q] = git[q]]_vars

\* The stash of dirty r1 failed and r1 is still on main with its changes,
\* while r2 was switched to dev and the command has returned.
C37_Witness ==
    /\ StashFailed("r1") /\ pc = "idle"
    /\ pre.git["r1"].dirty /\ git["r1"].dirty /\ git["r1"].cur = "main"
    /\ task["r2"].success /\ git["r2"].cur = "dev" /\ pre.git["r2"].cur = "main"

\* ------------------------------------------------------------------ C38
\* How ApplyStash ends when it fails after git stash list has run.
ApplyErrors == {"no_stash", "apply"}

\* ApplyStash was called for the repository of task t: a stash was applied
\* or the task holds an error of ApplyStash ("check" and "not_git" are the
\* errors of SwitchToBranch).
ApplyIssued(t) == t.applied # 0 \/ t.err \in ApplyErrors

\* The repositories a revert has processed.
RevertedRepos ==
    {r \in Repos : args.cmd = "revert" /\ r \in DOMAIN args.state.repos
                      /\ task[r].st = "done"}

\* C38: during revert, a stash apply is issued for a repository only after
\* that repository was switched to its recorded branch in this revert, with
\* --apply-stashes true and a stash label in its entry; when the switch
\* failed, or applyStashes is false, or the entry has no label, no apply is
\* issued: the working tree and the stash list are as the switch left them.
C38_ApplyOnlyAfterSuccessfulSwitch ==
    \A r \in RevertedRepos :
        LET t == task[r]
            entry == args.state.repos[r]
            wanted == args.applyStashes /\ entry.stash # EmptyStr
        IN  /\ ApplyIssued(t) =>
                 (t.success /\ wanted /\ t.to = entry.branch /\ git[r].cur = entry.branch)
            /\ (t.success /\ wanted) => ApplyIssued(t)
            /\ ~ApplyIssued(t) =>
                 (git[r].dirty = pre.left[r].dirty /\ git[r].stashes = pre.left[r].stashes)

\* A stash was applied to r1 after r1 was switched from main to dev.
C38_Witness ==
    /\ "r1" \in RevertedRepos
    /\ task["r1"].applied # 0 /\ task["r1"].nco = 1
    /\ git["r1"].cur = "dev" /\ pre.left["r1"].cur = "main"
    /\ git["r1"].dirty

\* ------------------------------------------------------------------ C39
\* The revert command found a state at its index and handed it to
\* RevertToState.
RevertRan == args.cmd = "revert" /\ args.state # NoState

\* The lines the command printed.
PrintedLines == {out.printed[i] : i \in 1..Len(out.printed)}

\* C39: RevertToState returns nil whatever happened to the repositories:
\* a revert with a valid index never exits before its end, and ends with
\* the "Successfully reverted" line printed and exit code 0, even when
\* every repository failed to switch.
C39_RevertAlwaysReportsSuccess ==
    RevertRan =>
        /\ pc = "rv_run" => ~out.exited
        /\ pc = "idle" =>
             /\ out.exited /\ out.exit = 0
             /\ <<"Successfully reverted to state", ToString(args.index)>> \in PrintedLines

\* A revert that has ended after both repositories failed to switch.
C39_Witness ==
    /\ RevertRan /\ pc = "idle"
    /\ DOMAIN args.state.repos = Repos
    /\ \A r \in Repos : task[r].st = "done" /\ ~task[r].success /\ task[r].err # "none"
    /\ out.exit = 0

\* ------------------------------------------------------------------ C40
\* The history file exists and cannot be read or parsed.
Unreadable == histFile = "corrupt"

\* C40: a history file that cannot be read or parsed is never overwritten:
\* no step changes the file or its content while it is unreadable; the
\* history step of switch goes on to the switch; and a switch that has
\* returned with the file unreadable saved no snapshot and ran the task of
\* every repository to its end.
C40_UnreadableHistoryIsNotOverwritten ==
    /\ [][Unreadable => (histFile' = histFile /\ history' = history /\ clock' = clock)]_vars
    /\ [][(Unreadable /\ pc = "sw_history") => pc' = "sw_launch"]_vars
    /\ []((Switching /\ Unreadable /\ pc = "idle") =>
            /\ ~pre.saved
            /\ \A r \in config.repositories : task[r].st = "done")

\* A switch with history recording on has returned, the file of two states
\* is still unreadable, and r1 was switched to another branch.
C40_Witness ==
    /\ Switching /\ RecordsHistory /\ Unreadable /\ pc = "idle"
    /\ Len(history) = 2
    /\ task["r1"].success /\ git["r1"].cur # pre.git["r1"].cur

====
